---- MODULE Spec2Model ----
(***************************************************************************)
(* Slack influencer-analytics bots: month.py, plan.py, influencer.py,      *)
(* weekly.py, trend.py and main.py.  Every file with an `app = App(...)`   *)
(* is a program of its own with its own in-memory context store; weekly.py *)
(* and trend.py are libraries whose entry points receive the caller's      *)
(* ordered store.  One behaviour of the model is one run of one program:   *)
(* `program` is chosen in Init and never changes.                          *)
(*                                                                         *)
(* A handler runs to completion (Bolt dispatches one event at a time), so  *)
(* each handler is one action.  What the handler did is kept in `turn`:    *)
(* the external calls it issued in order, the messages the user saw, and   *)
(* how it ended.  The outcomes of the external services (analytics API,    *)
(* LLM, Slack posts) are the action's inputs.                              *)
(***************************************************************************)
EXTENDS Integers, Sequences, FiniteSets, TLC

VARIABLES
    program,               \* which bot process this run is
    review_data_store,     \* month.py: dict thread_ts -> review context
    THREAD_CONTEXT,        \* plan.py: dict thread_ts -> plan context
    thread_context_store,  \* influencer.py: dict thread_ts -> analysis context
    ordered_context_store, \* the OrderedDict handed to weekly.py / trend.py
    conversation_history,  \* main.py: defaultdict(list) session_id -> messages
    next_ts,               \* the next message timestamp Slack will hand out
    now,                   \* wall clock, in hours
    turn,                  \* what the last handler invocation did
    workers,               \* main.py: the listener threads running process_user_query
    trace,                 \* main.py: the appends and sweeps run so far, and the arrivals
    process                \* whether the process runs, and how its start went

vars == <<program, review_data_store, THREAD_CONTEXT, thread_context_store,
          ordered_context_store, conversation_history, next_ts, now, turn,
          workers, trace, process>>

-----------------------------------------------------------------------------
(* Bounds of the model *)

MaxThreads == 2      \* thread timestamps / session ids in Spec
MaxChunks == 2       \* chunks an LLM answer is split into
GrowThreads == 21    \* threads created in SpecGrow

Threads == 1..MaxThreads

-----------------------------------------------------------------------------
(* Values shared by the handlers *)

\* A python dict as a function; `k in d`, d.get(k)
Has(d, k) == k \in DOMAIN d
Put(d, k, v) == [x \in DOMAIN d \cup {k} |-> IF x = k THEN v ELSE d[x]]
Drop(d, ks) == [x \in DOMAIN d \ ks |-> d[x]]
EmptyDict == [x \in {} |-> 0]

\* One message the user sees.  `tpl` is the text template of the say() call
\* site, `arg` the value formatted into it that the claims look at, `thread`
\* the thread_ts it is posted under (0: the channel).
Msg(tpl, arg, thread) == [tpl |-> tpl, arg |-> arg, thread |-> thread]

\* One external call of a turn and how it ended.
Call(api, res) == [api |-> api, res |-> res]

\* The result of requests.post(...) followed by raise_for_status() and .json():
\* the parsed body, or a RequestException.
NetOk(body) == [ok |-> TRUE, body |-> body]
NetFail == [ok |-> FALSE]

\* What a handler run leaves behind.
Run(calls, msgs, store, ts, status, prompt) ==
    [calls |-> calls, msgs |-> msgs, store |-> store, ts |-> ts,
     status |-> status, prompt |-> prompt, writes |-> 0]

\* The run of a handler that assigned a context into the store
Wrote(run) == [run EXCEPT !.writes = 1]

NoPrompt == [kind |-> "none"]

\* int(s): the strings that parse, and their value
IntStrings == {"2025", "2024"}
ToInt(s) == IF s = "2025" THEN 2025 ELSE 2024

\* str.lower() / str.upper() on the strings of the model
Lower(s) ==
    CASE s = "December" -> "december"
      [] s = "Dec" -> "dec"
      [] s = "UK" -> "uk"
      [] s = "France" -> "france"
      [] OTHER -> s

Upper(s) ==
    CASE s = "France" -> "FRANCE"
      [] s = "uk" -> "UK"
      [] OTHER -> s

\* USER_INPUT_TO_ABBR_MAP.get(...): "none" stands for None
USER_INPUT_TO_ABBR_MAP(s) ==
    CASE s = "december" -> "Dec"
      [] s = "dec" -> "Dec"
      [] s = "january" -> "Jan"
      [] s = "jan" -> "Jan"
      [] OTHER -> "none"

ABBR_TO_FULL_MONTH_MAP(a) ==
    CASE a = "Dec" -> "December"
      [] a = "Jan" -> "January"
      [] OTHER -> "none"

\* MARKET_CURRENCY_CONFIG[...]['rate'], in percent (0.85 -> 85); EUR default
RatePct(market) ==
    CASE Upper(market) = "UK" -> 85
      [] Upper(market) = "FRANCE" -> 100
      [] OTHER -> 100

convert_eur_to_local(amount_eur, market) == (amount_eur * RatePct(market)) \div 100

\* query_api(url, payload, endpoint_name): the body, or an error mapping whose
\* text names the endpoint.  error = "none": the mapping has no "error" key.
query_api(endpoint_name, net) ==
    IF net.ok THEN [error |-> "none", body |-> net.body]
    ELSE [error |-> endpoint_name]

HasError(data) == data.error # "none"

\* `for chunk in chunks: say(text=chunk, thread_ts=...)` over n chunks when the
\* post of chunk number failAt raises (0: none does): the posts attempted, the
\* chunks the user got, and whether the loop raised.
PostChunks(n, failAt, thread) ==
    LET attempts == IF failAt = 0 THEN n ELSE failAt
        got == IF failAt = 0 THEN n ELSE failAt - 1
    IN  [calls |-> [i \in 1..attempts |->
                       Call("post:chunk", IF i = failAt THEN "raises" ELSE "ok")],
         msgs |-> [i \in 1..got |-> Msg("answer", "chunk", thread)],
         raised |-> failAt # 0]

Issued(run, api) == \E i \in 1..Len(run.calls) : run.calls[i].api = api

ApiRes(net) == IF net.ok THEN "ok" ELSE "error"
PostRes(ok) == IF ok THEN "ok" ELSE "raises"

-----------------------------------------------------------------------------
(* Inputs of the model *)

\* Command texts of /monthly-review and /plan, already split on "-"
CommandTexts ==
    { <<"UK", "December", "2025">>,
      <<"France", "Dec", "2025">>,
      <<"UK", "December">>,
      <<"UK", "Smarch", "2025">>,
      <<"UK", "December", "20x5">>,
      <<"UK", "Smarch", "20x5">> }

\* Bodies of the targets endpoint: kpis.total_target_budget (0: no kpis)
TargetBodies == { [total_target_budget |-> 100], [total_target_budget |-> 0] }

\* Bodies of the monthly-breakdown endpoint; an influencer is its name
ActualBodies ==
    { [budget_spent_eur |-> 40, conversions |-> 3, influencers |-> <<"anna">>],
      [budget_spent_eur |-> 200, conversions |-> 1, influencers |-> <<"bo">>],
      [budget_spent_eur |-> 0, conversions |-> 0, influencers |-> <<>>] }

Inf(name, spend) == [influencerName |-> name, averageSpendPerCampaign |-> spend]

\* Bodies of the discovery endpoint, per tier: the tier's influencers
GoldBodies == { <<>>, <<Inf("gia", 50), Inf("anna", 30)>> }
SilverBodies == { <<>>, <<Inf("sam", 20)>> }
BronzeBodies == { <<>>, <<Inf("bea", 500)>> }

Net(bodies) == {NetOk(b) : b \in bodies} \cup {NetFail}

\* The LLM call: it raises (LlmRaises), or answers with a text that splits into
\* n >= 1 chunks
LlmRaises == 0
LlmOutcomes == {LlmRaises} \cup (1..MaxChunks)

\* The outcomes of the external services during one handler run.  A handler
\* reads an outcome only when it issues the call.
\* A reply of the LLM is a text, kept as its sequence of tokens
CUSTOM_ERROR_MESSAGE == <<"Sorry, I am unable to answer this question .. cc @arvin">>

E0 == [targets |-> NetFail, actuals |-> NetFail, gold |-> NetFail,
       silver |-> NetFail, bronze |-> NetFail, api |-> NetFail,
       llm |-> LlmRaises, header |-> FALSE, upload |-> FALSE, failAt |-> 0,
       classify |-> CUSTOM_ERROR_MESSAGE, route |-> CUSTOM_ERROR_MESSAGE,
       plan |-> CUSTOM_ERROR_MESSAGE, step1 |-> NetFail, step2 |-> NetFail,
       compose |-> FALSE, thinking |-> FALSE, answer |-> FALSE]

-----------------------------------------------------------------------------
(* month.py *)

create_monthly_review_prompt(market, month, year, target_data, actual_data) ==
    [market |-> market, month |-> month, year |-> year,
     target_data |-> target_data, actual_data |-> actual_data]

MonthContext(market, raw_month_input, year, target_data, actual_data) ==
    [key |-> <<Lower(market), Lower(raw_month_input), year>>,
     market |-> market, month |-> raw_month_input, year |-> year,
     target_data |-> target_data, actual_data |-> actual_data,
     metrics |-> [target_budget_local |-> target_data.total_target_budget,
                  actual_spend_local |->
                      convert_eur_to_local(actual_data.budget_spent_eur, market),
                  total_conversions |-> actual_data.conversions,
                  total_influencers |-> Len(actual_data.influencers)]]

\* The try block of handle_monthly_review_command (lines 282-315): the LLM
\* call, the header post whose ts becomes the thread, the store, the chunks.
\* A report step that asks the LLM a second time when the first call raises
MonthReportRetry(store, ts, calls, msgs, market, raw, year, target, actual, env) ==
    LET prompt == create_monthly_review_prompt(market, raw, year, target, actual)
        failed == Msg("AI review generation failed", "exception", 0)
        asked == Call("LLM", PostRes(env.llm # LlmRaises))
        calls2 == calls \o <<asked, Call("post:header", PostRes(env.header))>>
        stored == Put(store, ts, MonthContext(market, raw, year, target, actual))
        posts == PostChunks(env.llm, env.failAt, ts)
        msgs2 == Append(msgs, Msg("Monthly Review", market, 0)) \o posts.msgs
    IN  IF env.llm = LlmRaises
        THEN Run(calls \o <<asked, asked>>, Append(msgs, failed), store, ts, "failed", prompt)
        ELSE IF ~env.header
        THEN Run(calls2, Append(msgs, failed), store, ts, "failed", prompt)
        ELSE IF posts.raised
        THEN Wrote(Run(calls2 \o posts.calls, Append(msgs2, failed), stored, ts + 1,
                       "failed", prompt))
        ELSE Wrote(Run(calls2 \o posts.calls, msgs2, stored, ts + 1, "ok", prompt))

MonthReport(store, ts, calls, msgs, market, raw, year, target, actual, env) ==
    LET prompt == create_monthly_review_prompt(market, raw, year, target, actual)
        failed == Msg("AI review generation failed", "exception", 0)
        calls1 == Append(calls, Call("LLM", PostRes(env.llm # LlmRaises)))
        calls2 == Append(calls1, Call("post:header", PostRes(env.header)))
        thread_ts == ts
        stored == Put(store, thread_ts, MonthContext(market, raw, year, target, actual))
        posts == PostChunks(env.llm, env.failAt, thread_ts)
        msgs2 == Append(msgs, Msg("Monthly Review", market, 0)) \o posts.msgs
    IN  IF env.llm = LlmRaises
        THEN Run(calls1, Append(msgs, failed), store, ts, "failed", prompt)
        ELSE IF ~env.header
        THEN Run(calls2, Append(msgs, failed), store, ts, "failed", prompt)
        ELSE IF posts.raised
        THEN Wrote(Run(calls2 \o posts.calls, Append(msgs2, failed), stored, ts + 1,
                 "failed", prompt))
        ELSE Wrote(Run(calls2 \o posts.calls, msgs2, stored, ts + 1, "ok", prompt))

handle_monthly_review_command(store, ts, text, env) ==
    LET parts == text
    IN  IF Len(parts) # 3
        THEN Run(<<>>, <<Msg("Format: /monthly-review Market-Month-Year", "", 0)>>,
                 store, ts, "rejected", NoPrompt)
        ELSE IF parts[3] \notin IntStrings
        THEN Run(<<>>, <<Msg("Invalid format", "", 0)>>, store, ts, "rejected", NoPrompt)
        ELSE
        LET market == parts[1]
            raw_month_input == parts[2]
            year == ToInt(parts[3])
            month_abbr == USER_INPUT_TO_ABBR_MAP(Lower(raw_month_input))
        IN  IF month_abbr = "none"
            THEN Run(<<>>, <<Msg("Invalid month", raw_month_input, 0)>>,
                     store, ts, "rejected", NoPrompt)
            ELSE
            LET month_full == ABBR_TO_FULL_MONTH_MAP(month_abbr)
                msgs1 == <<Msg("Generating review", market, 0),
                           Msg("Step 1/3: Fetching target data", "", 0)>>
                target_data == query_api("Targets", env.targets)
                calls1 == <<Call("Targets", ApiRes(env.targets))>>
            IN  IF HasError(target_data)
                THEN Run(calls1,
                         Append(msgs1, Msg("Target API Error", target_data.error, 0)),
                         store, ts, "api_error", NoPrompt)
                ELSE
                LET msgs2 == Append(msgs1,
                                 Msg("Step 2/3: Fetching monthly performance data", "", 0))
                    actual_data == query_api("Actuals", env.actuals)
                    calls2 == Append(calls1, Call("Actuals", ApiRes(env.actuals)))
                IN  IF HasError(actual_data)
                    THEN Run(calls2,
                             Append(msgs2, Msg("Actuals API Error", actual_data.error, 0)),
                             store, ts, "api_error", NoPrompt)
                    ELSE IF actual_data.body.influencers = <<>>
                    THEN Run(calls2,
                             Append(msgs2, Msg("No performance data found", market, 0)),
                             store, ts, "no_data", NoPrompt)
                    ELSE MonthReport(store, ts, calls2,
                             Append(msgs2, Msg("Step 3/3: Analyzing performance", "", 0)),
                             market, raw_month_input, year,
                             target_data.body, actual_data.body, env)

\* The answer of a follow-up handler: one LLM call, then the chunks in the
\* thread; any exception ends in the handler's apology
Followup(store, ts, thread_ts, prompt, sorry, env) ==
    LET calls1 == <<Call("LLM", PostRes(env.llm # LlmRaises))>>
        posts == PostChunks(env.llm, env.failAt, thread_ts)
    IN  IF env.llm = LlmRaises
        THEN Run(calls1, <<Msg(sorry, "exception", thread_ts)>>, store, ts, "failed", prompt)
        ELSE IF posts.raised
        THEN Run(calls1 \o posts.calls, Append(posts.msgs, Msg(sorry, "exception", thread_ts)),
                 store, ts, "failed", prompt)
        ELSE Run(calls1 \o posts.calls, posts.msgs, store, ts, "ok", prompt)

Ignored(store, ts) == Run(<<>>, <<>>, store, ts, "ignored", NoPrompt)

\* A follow-up handler that answers from the review created last instead of
\* the review of the thread the reply is in
MonthThreadMessagesLatest(store, ts, event, env) ==
    IF event.thread_ts = 0 \/ event.bot_id \/ ~Has(store, event.thread_ts)
    THEN Ignored(store, ts)
    ELSE
    LET latest == CHOOSE k \in DOMAIN store : \A j \in DOMAIN store : j <= k
        stored_data == store[latest]
    IN  Followup(store, ts, event.thread_ts,
                 [kind |-> "followup",
                  context |-> [market |-> stored_data.market, month |-> stored_data.month,
                               year |-> stored_data.year, metrics |-> stored_data.metrics,
                               target_data |-> stored_data.target_data,
                               actual_data |-> stored_data.actual_data],
                  question |-> event.text],
                 "Sorry, I encountered an error processing your question", env)

\* month.py handle_thread_messages(event, say)
MonthThreadMessages(store, ts, event, env) ==
    IF event.thread_ts = 0 THEN Ignored(store, ts)
    ELSE IF event.bot_id THEN Ignored(store, ts)
    ELSE IF ~Has(store, event.thread_ts) THEN Ignored(store, ts)
    ELSE
    LET stored_data == store[event.thread_ts]
        context_prompt ==
            [kind |-> "followup",
             context |-> [market |-> stored_data.market, month |-> stored_data.month,
                          year |-> stored_data.year, metrics |-> stored_data.metrics,
                          target_data |-> stored_data.target_data,
                          actual_data |-> stored_data.actual_data],
             question |-> event.text]
    IN  Followup(store, ts, event.thread_ts, context_prompt,
                 "Sorry, I encountered an error processing your question", env)

-----------------------------------------------------------------------------
(* plan.py *)

\* get_currency_info(market)['name']
CurrencyName(market) ==
    CASE Upper(market) = "UK" -> "GBP"
      [] Upper(market) = "FRANCE" -> "EUR"
      [] OTHER -> "EUR"

store_thread_context(store, thread_ts, ctx) == Put(store, thread_ts, ctx)

\* THREAD_CONTEXT.get(thread_ts): the context, or "none" in `found`
get_thread_context(store, thread_ts) ==
    IF Has(store, thread_ts) THEN [found |-> TRUE, context |-> store[thread_ts]]
    ELSE [found |-> FALSE]

InSeq(x, seq) == \E i \in 1..Len(seq) : seq[i] = x

\* fetch_tier_influencers: a failed fetch is logged and yields the empty list
fetch_tier_influencers(tier, net, booked_influencer_names) ==
    LET discovery_data == query_api(tier, net)
    IN  IF HasError(discovery_data) THEN <<>>
        ELSE SelectSeq(discovery_data.body,
                       LAMBDA inf : inf.influencerName \notin booked_influencer_names)

\* sorted(influencers_list, key=averageSpendPerCampaign): stable insertion sort
RECURSIVE InsertBySpend(_, _)
InsertBySpend(sorted, x) ==
    IF sorted = <<>> THEN <<x>>
    ELSE IF sorted[Len(sorted)].averageSpendPerCampaign <= x.averageSpendPerCampaign
    THEN Append(sorted, x)
    ELSE Append(InsertBySpend(SubSeq(sorted, 1, Len(sorted) - 1), x),
                sorted[Len(sorted)])

\* The list as it came, not sorted
SortBySpend_unsorted(list) == list

RECURSIVE SortBySpend(_)
SortBySpend(list) ==
    IF list = <<>> THEN <<>>
    ELSE InsertBySpend(SortBySpend(SubSeq(list, 1, Len(list) - 1)), list[Len(list)])

\* The 98% test never stops the allocation
Utilized_never(allocated_budget, remaining_budget) == FALSE

\* allocated_budget >= remaining_budget * 0.98
Utilized(allocated_budget, remaining_budget) ==
    100 * allocated_budget >= 98 * remaining_budget

\* The inner loop of allocate_budget_cascading_tiers over one sorted tier, from
\* influencer i on.  acc: [allocated, recs (all), tier (this tier's)]
RECURSIVE AllocateTier(_, _, _, _, _, _, _)
AllocateTier(sorted, i, acc, remaining_budget, effective_cac, tier_name, market) ==
    IF i > Len(sorted) THEN acc
    ELSE
    LET avg_spend == sorted[i].averageSpendPerCampaign
        recommendation ==
            [influencer_name |-> sorted[i].influencerName,
             allocated_budget |-> avg_spend,
             predicted_conversions |->
                 IF effective_cac > 0 THEN avg_spend \div effective_cac ELSE 0,
             effective_cac |-> effective_cac,
             tier |-> tier_name, market |-> market]
        took == [allocated |-> acc.allocated + avg_spend,
                 recs |-> Append(acc.recs, recommendation),
                 tier |-> Append(acc.tier, recommendation)]
    IN  IF acc.allocated + avg_spend <= remaining_budget
        THEN IF Utilized(took.allocated, remaining_budget) THEN took
             ELSE AllocateTier(sorted, i + 1, took, remaining_budget, effective_cac,
                               tier_name, market)
        ELSE AllocateTier(sorted, i + 1, acc, remaining_budget, effective_cac,
                          tier_name, market)

\* The outer loop over tiers_data from tier k on.
\* acc: [allocated, recs, breakdown]
RECURSIVE AllocateTiers(_, _, _, _, _, _)
AllocateTiers(tiers_data, k, acc, remaining_budget, effective_cac, market) ==
    IF k > Len(tiers_data) THEN acc
    ELSE IF Utilized(acc.allocated, remaining_budget) THEN acc
    ELSE
    LET tier_name == tiers_data[k][1]
        t == AllocateTier(SortBySpend(tiers_data[k][2]), 1,
                          [allocated |-> acc.allocated, recs |-> acc.recs, tier |-> <<>>],
                          remaining_budget, effective_cac, tier_name, market)
    IN  AllocateTiers(tiers_data, k + 1,
                      [allocated |-> t.allocated, recs |-> t.recs,
                       breakdown |-> [acc.breakdown EXCEPT ![tier_name] = t.tier]],
                      remaining_budget, effective_cac, market)

\* Returns [recs, allocated, breakdown]:
\* (all_recommendations, allocated_budget, tier_breakdown)
allocate_budget_cascading_tiers(gold_influencers, silver_influencers, bronze_influencers, remaining_budget, effective_cac, market) ==
    AllocateTiers(<< <<"Gold", gold_influencers>>, <<"Silver", silver_influencers>>,
                     <<"Bronze", bronze_influencers>> >>, 1,
                  [allocated |-> 0, recs |-> <<>>,
                   breakdown |-> [Gold |-> <<>>, Silver |-> <<>>, Bronze |-> <<>>]],
                  remaining_budget, effective_cac, market)

EFFECTIVE_CAC == 50

SeqToSet(seq) == {seq[i] : i \in 1..Len(seq)}

\* Section 6 of handle_plan_command (lines 594-657): the parent post, the
\* Excel upload, the LLM summary, the store, the chunks, the closing note.
PlanReport(store, ts, clock, calls, msgs, ctx, env) ==
    LET prompt == ctx
        err(thread) == Msg("I encountered an error while generating the report",
                           "exception", thread)
        thread_ts == ts
        calls1 == Append(calls, Call("post:header", PostRes(env.header)))
        msgs1 == Append(msgs, Msg("Here is the multi-tier influencer plan", ctx.market, 0))
        calls2 == Append(calls1, Call("post:upload", PostRes(env.upload)))
        calls3 == Append(calls2, Call("LLM", PostRes(env.llm # LlmRaises)))
        stored == store_thread_context(store, thread_ts, ctx)
        posts == PostChunks(env.llm, env.failAt, thread_ts)
        msgs2 == msgs1 \o posts.msgs
    IN  IF ~env.header
        THEN Run(calls1, Append(msgs, err(0)), store, ts, "failed", NoPrompt)
        ELSE IF ~env.upload
        THEN Run(calls2, Append(msgs1, err(thread_ts)), store, ts + 1, "failed", NoPrompt)
        ELSE IF env.llm = LlmRaises
        THEN Run(calls3, Append(msgs1, err(thread_ts)), store, ts + 1, "failed", prompt)
        ELSE IF posts.raised
        THEN Wrote(Run(calls3 \o posts.calls, Append(msgs2, err(thread_ts)), stored, ts + 1,
                 "failed", prompt))
        ELSE Wrote(Run(calls3 \o posts.calls,
                 Append(msgs2, Msg("Have questions about this plan?", "", thread_ts)),
                 stored, ts + 1, "ok", prompt))

\* Sections 3-5 of handle_plan_command (lines 523-590), after both base calls
PlanAllocate(store, ts, clock, calls, msgs, market, raw, year, target, actual, env) ==
    LET currency == CurrencyName(market)
        target_budget == target.total_target_budget
        actual_spend == convert_eur_to_local(actual.budget_spent_eur, market)
        booked_influencers == actual.influencers
        booked_influencer_names == SeqToSet(booked_influencers)
        remaining_budget == target_budget - actual_spend
        gold == fetch_tier_influencers("Discovery-Gold", env.gold, booked_influencer_names)
        silver == fetch_tier_influencers("Discovery-Silver", env.silver,
                                         booked_influencer_names)
        bronze == fetch_tier_influencers("Discovery-Bronze", env.bronze,
                                         booked_influencer_names)
        calls1 == calls \o <<Call("Discovery-Gold", ApiRes(env.gold)),
                             Call("Discovery-Silver", ApiRes(env.silver)),
                             Call("Discovery-Bronze", ApiRes(env.bronze))>>
        msgs1 == Append(msgs, Msg("Fetching available influencers across all tiers", "", 0))
        total_available == Len(gold) + Len(silver) + Len(bronze)
        plan == allocate_budget_cascading_tiers(gold, silver, bronze, remaining_budget,
                                                EFFECTIVE_CAC, market)
        msgs2 == msgs1 \o <<Msg("Found influencers", "", 0),
                            Msg("Optimizing budget allocation across tiers", "", 0)>>
        ctx == [market |-> market, month |-> raw, year |-> year, currency |-> currency,
                target_budget |-> target_budget, actual_spend |-> actual_spend,
                remaining_budget |-> remaining_budget,
                total_allocated |-> plan.allocated, recommendations |-> plan.recs,
                tier_breakdown |-> plan.breakdown,
                booked_influencers |-> booked_influencers, timestamp |-> clock]
    IN  IF remaining_budget <= 0
        THEN Run(calls, Append(msgs, Msg("Budget Status - No Further Allocation Possible",
                                         market, 0)),
                 store, ts, "no_budget", NoPrompt)
        ELSE IF total_available = 0
        THEN Run(calls1, Append(msgs1, Msg("All available influencers have been booked",
                                           market, 0)),
                 store, ts, "no_data", NoPrompt)
        ELSE IF plan.recs = <<>>
        THEN Run(calls1, Append(msgs2, Msg("No influencers found that fit", market, 0)),
                 store, ts, "no_fit", NoPrompt)
        ELSE PlanReport(store, ts, clock, calls1,
                        Append(msgs2, Msg("Creating threaded report and AI summary", "", 0)),
                        ctx, env)

handle_plan_command(store, ts, clock, text, env) ==
    LET parts == text
    IN  IF Len(parts) # 3
        THEN Run(<<>>, <<Msg("Please use the format: /plan Market-Month-Year", "", 0)>>,
                 store, ts, "rejected", NoPrompt)
        ELSE IF parts[3] \notin IntStrings
        THEN Run(<<>>, <<Msg("Invalid format. Please use /plan with a valid year", "", 0)>>,
                 store, ts, "rejected", NoPrompt)
        ELSE
        LET market == parts[1]
            raw_month_input == parts[2]
            year == ToInt(parts[3])
            month_abbr == USER_INPUT_TO_ABBR_MAP(Lower(raw_month_input))
        IN  IF month_abbr = "none"
            THEN Run(<<>>, <<Msg("I don't recognize the month", raw_month_input, 0)>>,
                     store, ts, "rejected", NoPrompt)
            ELSE
            LET msgs1 == <<Msg("Got it! I'm creating a strategic plan", market, 0)>>
                target_data == query_api("Targets", env.targets)
                calls1 == <<Call("Targets", ApiRes(env.targets))>>
                actual_data == query_api("Actuals", env.actuals)
                calls2 == Append(calls1, Call("Actuals", ApiRes(env.actuals)))
            IN  IF HasError(target_data)
                THEN Run(calls1,
                         Append(msgs1, Msg("Step 1/4 failed. API Error", target_data.error, 0)),
                         store, ts, "api_error", NoPrompt)
                ELSE IF HasError(actual_data)
                THEN Run(calls2,
                         Append(msgs1, Msg("Step 2/4 failed. API Error", actual_data.error, 0)),
                         store, ts, "api_error", NoPrompt)
                ELSE PlanAllocate(store, ts, clock, calls2, msgs1, market, raw_month_input,
                                  year, target_data.body, actual_data.body, env)

PlanTexts == CommandTexts \ { <<"France", "Dec", "2025">> }

\* '<@' in text or 'bot' in text.lower()
MentionsBot(text) == text \in {"<@U1> which tier is best?", "Bot, why gia?",
                                "<@U1> answer",
                                "<@U1> I encountered an error processing your question"}

\* plan.py handle_thread_replies(event, say)
handle_thread_replies(store, ts, event, env) ==
    IF ~(event.thread_ts # 0 /\ event.text # "" /\ MentionsBot(event.text))
    THEN Ignored(store, ts)
    ELSE
    LET thread_ts == event.thread_ts
        found == get_thread_context(store, thread_ts)
    IN  IF ~found.found
        THEN Run(<<>>, <<Msg("I don't have context for this thread", "", thread_ts)>>,
                 store, ts, "no_context", NoPrompt)
        ELSE
        LET context == found.context
            context_prompt ==
                [kind |-> "followup",
                 context |-> [market |-> context.market, month |-> context.month,
                              year |-> context.year, currency |-> context.currency,
                              target_budget |-> context.target_budget,
                              actual_spend |-> context.actual_spend,
                              remaining_budget |-> context.remaining_budget,
                              total_allocated |-> context.total_allocated,
                              recommendations |-> context.recommendations,
                              tier_breakdown |-> context.tier_breakdown,
                              booked_influencers |-> context.booked_influencers],
                 question |-> event.text]
        IN  Followup(store, ts, thread_ts, context_prompt,
                     "I encountered an error processing your question", env)

-----------------------------------------------------------------------------
(* influencer.py *)

AnalyseTexts == { <<>>, <<"anna">>, <<"anna", "2025">>, <<"anna", "2025", "December">>,
                  <<"anna", "20x5">>, <<"anna", "2025", "Smarch">> }

Campaign(market, budget, conversions) ==
    [market |-> market, total_budget_clean |-> budget,
     actual_conversions_clean |-> conversions, currency |-> "EUR"]

CampaignBodies == { [campaigns |-> <<>>],
                    [campaigns |-> <<Campaign("UK", 100, 4)>>],
                    [campaigns |-> <<Campaign("France", 60, 0), Campaign("UK", 40, 2)>>] }

RECURSIVE SumOver(_, _)
SumOver(seq, f) ==
    IF seq = <<>> THEN 0 ELSE seq[1][f] + SumOver(Tail(seq), f)

SummaryStats(campaigns) ==
    LET total_spend_eur == SumOver(campaigns, "total_budget_clean")
        total_conversions == SumOver(campaigns, "actual_conversions_clean")
    IN  [total_campaigns |-> Len(campaigns),
         markets |-> {campaigns[i].market : i \in 1..Len(campaigns)},
         total_spend_eur |-> total_spend_eur,
         total_conversions |-> total_conversions,
         effective_cac_eur |-> IF total_conversions > 0
                               THEN total_spend_eur \div total_conversions ELSE 0]

\* Lines 204-241 of handle_analyse_influencer_command: the statistics, the
\* LLM analysis, the header post, the store, the chunks
AnalyseReport(store, ts, calls, msgs, influencer_name, filters, campaigns, env) ==
    LET summary_stats == SummaryStats(campaigns)
        prompt == [kind |-> "analysis", influencer_name |-> influencer_name,
                   campaigns |-> campaigns, summary_stats |-> summary_stats]
        failed == Msg("AI analysis failed", "exception", 0)
        calls1 == Append(calls, Call("LLM", PostRes(env.llm # LlmRaises)))
        calls2 == Append(calls1, Call("post:header", PostRes(env.header)))
        thread_ts == ts
        stored == Put(store, thread_ts,
                      [type |-> "influencer_analysis", influencer_name |-> influencer_name,
                       filters |-> filters, campaigns |-> campaigns,
                       summary_stats |-> summary_stats])
        posts == PostChunks(env.llm, env.failAt, thread_ts)
        msgs2 == Append(msgs, Msg("Performance Analysis for", influencer_name, 0)) \o posts.msgs
    IN  IF env.llm = LlmRaises
        THEN Run(calls1, Append(msgs, failed), store, ts, "failed", prompt)
        ELSE IF ~env.header
        THEN Run(calls2, Append(msgs, failed), store, ts, "failed", prompt)
        ELSE IF posts.raised
        THEN Wrote(Run(calls2 \o posts.calls, Append(msgs2, failed), stored, ts + 1, "failed", prompt))
        ELSE Wrote(Run(calls2 \o posts.calls, msgs2, stored, ts + 1, "ok", prompt))

handle_analyse_influencer_command(store, ts, text, env) ==
    LET parts == text
    IN  IF parts = <<>>
        THEN Run(<<>>, <<Msg("Format: /analyse-influencer name - [year] - [month]", "", 0)>>,
                 store, ts, "rejected", NoPrompt)
        ELSE IF Len(parts) > 1 /\ parts[2] \notin IntStrings
        THEN Run(<<>>, <<Msg("Invalid format. The year must be a number.", "", 0)>>,
                 store, ts, "rejected", NoPrompt)
        ELSE IF Len(parts) > 2 /\ USER_INPUT_TO_ABBR_MAP(Lower(parts[3])) = "none"
        THEN Run(<<>>, <<Msg("Invalid month", parts[3], 0)>>, store, ts, "rejected", NoPrompt)
        ELSE
        LET influencer_name == parts[1]
            filters == [influencer_name |-> influencer_name,
                        year |-> IF Len(parts) > 1 THEN ToInt(parts[2]) ELSE 0,
                        month |-> IF Len(parts) > 2
                                  THEN USER_INPUT_TO_ABBR_MAP(Lower(parts[3])) ELSE "none"]
            msgs1 == <<Msg("Analyzing performance for", influencer_name, 0)>>
            api_data == query_api("Influencer Analytics", env.api)
            calls1 == <<Call("Influencer Analytics", ApiRes(env.api))>>
        IN  IF HasError(api_data)
            THEN Run(calls1, Append(msgs1, Msg("Could not connect to the API", api_data.error, 0)),
                     store, ts, "api_error", NoPrompt)
            ELSE IF api_data.body.campaigns = <<>>
            THEN Run(calls1, Append(msgs1, Msg("No campaigns found for", influencer_name, 0)),
                     store, ts, "no_data", NoPrompt)
            ELSE AnalyseReport(store, ts, calls1, msgs1, influencer_name, filters,
                               api_data.body.campaigns, env)

\* influencer.py handle_thread_messages(event, say)
InfluencerThreadMessages(store, ts, event, env) ==
    IF event.thread_ts = 0 \/ event.bot_id THEN Ignored(store, ts)
    ELSE IF ~Has(store, event.thread_ts) THEN Ignored(store, ts)
    ELSE
    LET stored_data == store[event.thread_ts]
        context_prompt == [kind |-> "followup", context |-> stored_data,
                           question |-> event.text]
    IN  Followup(store, ts, event.thread_ts, context_prompt,
                 "Sorry, I had trouble processing that follow-up.", env)

-----------------------------------------------------------------------------
(* weekly.py and trend.py: libraries over the caller's OrderedDict, kept here *)
(* as a sequence of <<thread_ts, context>> entries in insertion order         *)

OKeys(od) == {od[i].ts : i \in 1..Len(od)}
OGet(od, k) == (CHOOSE i \in 1..Len(od) : od[i].ts = k)
\* od[k] = v: a present key keeps its position, a new key goes last
OSet(od, k, v) ==
    IF k \in OKeys(od)
    THEN [i \in 1..Len(od) |-> IF od[i].ts = k THEN [ts |-> k, ctx |-> v] ELSE od[i]]
    ELSE Append(od, [ts |-> k, ctx |-> v])
\* od.move_to_end(k)
move_to_end(od, k) ==
    Append(SelectSeq(od, LAMBDA en : en.ts # k), od[OGet(od, k)])

Truthy(x) == x # <<>>

RangeParams == { [market |-> "UK", start_date |-> "2025-01-01", end_date |-> "2025-01-07"],
                 [market |-> "UK", start_date |-> "2025-01-01"] }
NumberParams == { [market |-> "UK", week_number |-> 3, year |-> 2025],
                  [market |-> "UK", year |-> 2025] }
BreakdownBodies == { [summary |-> <<"spend">>, details |-> <<"anna">>],
                     [summary |-> <<"spend">>, details |-> <<>>],
                     [summary |-> <<>>, details |-> <<>>] }

\* Lines 72-96 of run_weekly_review_by_range and 100-124 of
\* run_weekly_review_by_number, which differ in the required keys, the
\* endpoint and the context type only
WeeklyReview(store, thread_ts, params, required, endpoint, type, env) ==
    IF ~(required \subseteq DOMAIN params)
    THEN Run(<<>>, <<Msg("A required parameter was missing", type, thread_ts)>>,
             store, 0, "rejected", NoPrompt)
    ELSE
    LET api_data == query_api(endpoint, env.api)
        calls1 == <<Call(endpoint, ApiRes(env.api))>>
    IN  IF HasError(api_data)
        THEN Run(calls1, <<Msg("API Error", api_data.error, thread_ts)>>,
                 store, 0, "api_error", NoPrompt)
        ELSE IF ~Truthy(api_data.body.summary) \/ ~Truthy(api_data.body.details)
        THEN Run(calls1, <<Msg("No performance data found", params.market, thread_ts)>>,
                 store, 0, "no_data", NoPrompt)
        ELSE
        LET prompt == [kind |-> type, params |-> params, api_data |-> api_data.body]
            calls2 == Append(calls1, Call("LLM", PostRes(env.llm # LlmRaises)))
            failed == Msg("An error occurred generating the AI summary", "exception", thread_ts)
            stored == OSet(store, thread_ts,
                           [type |-> type, params |-> params,
                            raw_api_data |-> api_data.body, bot_response |-> "ai_answer"])
            posts == PostChunks(env.llm, env.failAt, thread_ts)
        IN  IF env.llm = LlmRaises
            THEN Run(calls2, <<failed>>, store, 0, "failed", prompt)
            ELSE IF posts.raised
            THEN Wrote(Run(calls2 \o posts.calls, Append(posts.msgs, failed), stored, 0,
                     "failed", prompt))
            ELSE Wrote(Run(calls2 \o posts.calls, posts.msgs, stored, 0, "ok", prompt))

run_weekly_review_by_range(store, thread_ts, params, env) ==
    WeeklyReview(store, thread_ts, params, {"market", "start_date", "end_date"},
                 "Date Range Breakdown", "weekly_review_by_range", env)

run_weekly_review_by_number(store, thread_ts, params, env) ==
    WeeklyReview(store, thread_ts, params, {"market", "week_number"},
                 "Week Number Breakdown", "weekly_review_by_number", env)

\* weekly.py handle_thread_messages(event, say, client, context)
WeeklyThreadMessages(store, event, context, env) ==
    IF context.type \notin {"weekly_review_by_range", "weekly_review_by_number"}
    THEN Run(<<>>, <<Msg("I've lost the specific context for this weekly review", "",
                         event.thread_ts)>>,
             store, 0, "no_context", NoPrompt)
    ELSE Followup(store, 0, event.thread_ts,
                  [kind |-> "followup",
                   context |-> [type |-> context.type, params |-> context.params,
                                raw_api_data |-> context.raw_api_data],
                   question |-> event.text],
                  "Sorry, I encountered an error.", env)

TrendInf(name, conversions, cac, spend) ==
    [influencer_name |-> name, total_conversions |-> conversions,
     effective_cac_eur |-> cac, total_spend_eur |-> spend]
TrendBodies == { [source |-> "discovery_tier_specific", items |-> <<>>],
                 [source |-> "discovery_tier_specific",
                  items |-> <<TrendInf("anna", 3, 20, 60), TrendInf("bo", 0, 0, 90)>>],
                 [source |-> "discovery_tier_specific",
                  items |-> <<TrendInf("bo", 0, 0, 90)>>] }
TrendParams == { [market |-> "UK", year |-> 2025], [tier |-> "gold"] }

\* run_influencer_trend(say, thread_ts, params, thread_context_store); the
\* leaderboard posts of lines 97-184 are one step here
run_influencer_trend(store, thread_ts, params, env) ==
    LET filters == params
        msgs1 == <<Msg("Fetching influencer trend data", "", thread_ts)>>
        unexpected == Msg("An unexpected error occurred", "exception", thread_ts)
        calls1 == <<Call("Discovery Tiers", ApiRes(env.api))>>
    IN  IF ~env.api.ok
        THEN Run(calls1, Append(msgs1, unexpected), store, 0, "api_error", NoPrompt)
        ELSE
        LET data == env.api.body
            all_influencers == data.items
            by_cac == SelectSeq(all_influencers,
                                LAMBDA x : x.total_conversions > 0 /\ x.effective_cac_eur > 0)
            zero_conv == SelectSeq(all_influencers, LAMBDA x : x.total_conversions = 0)
            msgs2 == Append(msgs1, Msg("Found influencers. Compiling leaderboards", "",
                                       thread_ts))
            calls2 == Append(calls1, Call("post:tables", PostRes(env.header)))
            msgs3 == Append(msgs2, Msg("leaderboards", "", thread_ts))
            prompt == [kind |-> "trend", filters |-> filters,
                       total |-> Len(all_influencers), wasted |-> Len(zero_conv)]
            calls3 == Append(calls2, Call("LLM", PostRes(env.llm # LlmRaises)))
            posts == PostChunks(env.llm, env.failAt, thread_ts)
            stored == move_to_end(OSet(store, thread_ts,
                                       [type |-> "influencer_trend", filters |-> filters,
                                        raw_api_data |-> data, bot_response |-> "ai_summary"]),
                                  thread_ts)
        IN  IF all_influencers = <<>>
            THEN Run(calls1, Append(msgs1, Msg("No trend data found", "", thread_ts)),
                     store, 0, "no_data", NoPrompt)
            ELSE IF ~env.header
            THEN Run(calls2, Append(msgs2, unexpected), store, 0, "failed", NoPrompt)
            ELSE IF by_cac = <<>>
            THEN Run(calls2, Append(msgs3, unexpected), store, 0, "failed", NoPrompt)
            ELSE IF env.llm = LlmRaises
            THEN Run(calls3, Append(msgs3, unexpected), store, 0, "failed", prompt)
            ELSE IF posts.raised
            THEN Run(calls3 \o posts.calls, Append(msgs3 \o posts.msgs, unexpected),
                     store, 0, "failed", prompt)
            ELSE Wrote(Run(calls3 \o posts.calls, msgs3 \o posts.msgs, stored, 0, "ok", prompt))

\* trend.py handle_thread_messages(event, say, context)
TrendThreadMessages(store, event, context, env) ==
    Followup(store, 0, event.thread_ts,
             [kind |-> "followup",
              context |-> [filters |-> context.filters,
                           bot_response |-> context.bot_response,
                           raw_api_data |-> context.raw_api_data],
              question |-> event.text],
             "Sorry, I had trouble processing your follow-up.", env)

\* The caller's lookup of the context of a thread, and its choice of the
\* follow-up handler by the context's type
RouteFollowup(store, event, env) ==
    IF event.thread_ts \notin OKeys(store) THEN Ignored(store, 0)
    ELSE
    LET context == store[OGet(store, event.thread_ts)].ctx
    IN  IF context.type = "influencer_trend"
        THEN TrendThreadMessages(store, event, context, env)
        ELSE WeeklyThreadMessages(store, event, context, env)

-----------------------------------------------------------------------------
(* main.py *)

HISTORY_CLEANUP_HOURS == 24
MAX_HISTORY_PER_THREAD == 20

Last(seq) == seq[Len(seq)]
LastN(seq, n) == IF Len(seq) <= n THEN seq ELSE SubSeq(seq, Len(seq) - n + 1, Len(seq))

\* A sweep that judges a thread by its first entry
cleanup_old_conversations_oldest(history, clock) ==
    LET cutoff_time == clock - HISTORY_CLEANUP_HOURS
        threads_to_remove == {thread_id \in DOMAIN history :
                                 /\ history[thread_id] # <<>>
                                 /\ history[thread_id][1].timestamp < cutoff_time}
    IN  Drop(history, threads_to_remove)

cleanup_old_conversations(history, clock) ==
    LET cutoff_time == clock - HISTORY_CLEANUP_HOURS
        threads_to_remove == {thread_id \in DOMAIN history :
                                 /\ history[thread_id] # <<>>
                                 /\ Last(history[thread_id]).timestamp < cutoff_time}
    IN  Drop(history, threads_to_remove)

\* The call with the list cut to its first entries, not its last
add_to_conversation_history_oldest(history, thread_id, role, content, clock) ==
    LET old == IF Has(history, thread_id) THEN history[thread_id] ELSE <<>>
        appended == Append(old, [role |-> role, content |-> content, timestamp |-> clock])
        h1 == Put(history, thread_id,
                  SubSeq(appended, 1, IF Len(appended) > MAX_HISTORY_PER_THREAD
                                      THEN MAX_HISTORY_PER_THREAD ELSE Len(appended)))
    IN  IF Cardinality(DOMAIN h1) % 10 = 0 THEN cleanup_old_conversations(h1, clock)
        ELSE h1

add_to_conversation_history(history, thread_id, role, content, clock) ==
    LET old == IF Has(history, thread_id) THEN history[thread_id] ELSE <<>>
        appended == Append(old, [role |-> role, content |-> content, timestamp |-> clock])
        h1 == Put(history, thread_id, LastN(appended, MAX_HISTORY_PER_THREAD))
    IN  IF Cardinality(DOMAIN h1) % 10 = 0 THEN cleanup_old_conversations(h1, clock)
        ELSE h1

\* A lookup that indexes the defaultdict without asking whether the thread is
\* in it, which inserts an empty history for an unknown thread
get_conversation_context_indexing(history, thread_id) ==
    LET h1 == IF Has(history, thread_id) THEN history ELSE Put(history, thread_id, <<>>)
    IN  [history |-> h1,
         lines |-> [i \in 1..Len(h1[thread_id]) |->
                       <<IF h1[thread_id][i].role = "user" THEN "User" ELSE "Assistant",
                         h1[thread_id][i].content>>]]

\* Returns the store after the call and the lines of the formatted history
get_conversation_context(history, thread_id) ==
    IF ~Has(history, thread_id) THEN [history |-> history, lines |-> <<>>]
    ELSE [history |-> history,
          lines |-> [i \in 1..Len(history[thread_id]) |->
                        <<IF history[thread_id][i].role = "user" THEN "User" ELSE "Assistant",
                          history[thread_id][i].content>>]]

\* query_influencer_api(payload)
query_influencer_api(net) ==
    IF net.ok THEN [error |-> "none", body |-> net.body]
    ELSE [error |-> "API Error"]

\* The token of three backquotes that opens and closes a code block
Fence == "<fence>"
Blank == " "
JsonSingle == "{\"complexity\": \"single\"}"
JsonMulti == "{\"complexity\": \"multi-step\"}"
JsonEmpty == "{}"
JsonQuery == "{\"source\": \"dashboard\"}"
JsonPlan == "{\"queries\": [1, 2], \"final_analysis_needed\": \"allocate\"}"
JsonPlanNoFinal == "{\"queries\": [1]}"
JsonTexts == {JsonSingle, JsonMulti, JsonEmpty, JsonQuery, JsonPlan, JsonPlanNoFinal}

QueryStep(n, purpose) == [step |-> n, purpose |-> purpose, query |-> [source |-> purpose]]

\* The value json.loads gives for a JSON text
JsonValue(text) ==
    CASE text = JsonSingle -> [complexity |-> "single"]
      [] text = JsonMulti -> [complexity |-> "multi-step"]
      [] text = JsonQuery -> [source |-> "dashboard"]
      [] text = JsonPlan -> [queries |-> <<QueryStep(1, "dashboard"), QueryStep(2, "summary")>>,
                             final_analysis_needed |-> "allocate"]
      [] text = JsonPlanNoFinal -> [queries |-> <<QueryStep(1, "dashboard")>>]
      [] OTHER -> <<>>

\* str.strip()
RECURSIVE LStrip(_)
LStrip(t) == IF t # <<>> /\ t[1] = Blank THEN LStrip(Tail(t)) ELSE t
RECURSIVE RStrip(_)
RStrip(t) == IF t # <<>> /\ Last(t) = Blank THEN RStrip(SubSeq(t, 1, Len(t) - 1)) ELSE t
Strip(t) == RStrip(LStrip(t))

StartsWith(t, token) == t # <<>> /\ t[1] = token

\* t.split(Fence)[1] for a text that starts with the fence: what stands
\* between the first fence and the next one (or the end of the text)
SplitFenceSecond(t) ==
    LET rest == Tail(t)
        fences == {i \in 1..Len(rest) : rest[i] = Fence}
        stop == IF fences = {} THEN Len(rest) + 1
                ELSE CHOOSE i \in fences : \A j \in fences : i <= j
    IN  SubSeq(rest, 1, stop - 1)

\* json.loads: surrounding blanks are allowed, anything else than one JSON
\* text raises
JsonDocument(u) ==
    IF Len(u) = 1 /\ u[1] \in JsonTexts THEN [ok |-> TRUE, value |-> JsonValue(u[1])]
    ELSE [ok |-> FALSE]

json_loads(t) == JsonDocument(Strip(t))

\* Lines 248-254 (and 319-325, 380-386): unwrap a fenced reply and parse it
StripJsonTag(inner) == IF StartsWith(inner, "json") THEN Tail(inner) ELSE inner

Unfenced(json_str) ==
    IF StartsWith(json_str, Fence) THEN StripJsonTag(SplitFenceSecond(json_str))
    ELSE json_str

ParseReply(response) == json_loads(Unfenced(Strip(response)))

SingleFallback == [complexity |-> "single", reasoning |-> "Error in analysis"]

\* A classifier wrapper whose parse is not guarded: nothing is returned when
\* the reply is no JSON
\* The value of a parsed reply, or `otherwise` when json.loads raised
ValueOr(parsed, otherwise) == IF parsed.ok THEN parsed.value ELSE otherwise

analyze_question_complexity_unguarded(response) ==
    IF response = CUSTOM_ERROR_MESSAGE THEN SingleFallback
    ELSE ValueOr(ParseReply(response), <<>>)

analyze_question_complexity(response) ==
    IF response = CUSTOM_ERROR_MESSAGE THEN SingleFallback
    ELSE ValueOr(ParseReply(response), SingleFallback)

None == [ok |-> FALSE]

extract_entities_and_generate_query(response) ==
    IF response = CUSTOM_ERROR_MESSAGE THEN None ELSE ParseReply(response)

generate_multi_step_queries(response) ==
    IF response = CUSTOM_ERROR_MESSAGE THEN None ELSE ParseReply(response)

StepNet(env, n) == IF n = 1 THEN env.step1 ELSE env.step2

\* results[f"step_{step_num}"] = {...}: the entry of a step, carrying 'error'
\* or 'data'
StepEntry(query_step, response) ==
    IF HasError(response)
    THEN [purpose |-> query_step.purpose, query |-> query_step.query,
          error |-> response.error]
    ELSE [purpose |-> query_step.purpose, query |-> query_step.query,
          data |-> response.body]

\* What the loop has done: the results dict (keyed by step number), the
\* positions of the steps whose query was sent, and whether a KeyError ended it
StepsRun(results, calls, raised) == [results |-> results, calls |-> calls, raised |-> raised]

\* for query_step in query_plan["queries"]: ...
RECURSIVE StepLoop(_, _, _, _)
StepLoop(queries, nets, i, acc) ==
    IF i > Len(queries) THEN acc
    ELSE IF {"step", "purpose", "query"} \ DOMAIN queries[i] # {}
    THEN [acc EXCEPT !.raised = TRUE]
    ELSE StepLoop(queries, nets, i + 1,
                  StepsRun(Put(acc.results, queries[i].step,
                               StepEntry(queries[i], query_influencer_api(nets[i]))),
                           Append(acc.calls, i), FALSE))

execute_multi_step_queries(query_plan, nets) ==
    StepLoop(query_plan.queries, nets, 1, StepsRun(EmptyDict, <<>>, FALSE))

StepCalls(query_plan, env) ==
    [i \in 1..Len(query_plan.queries) |->
        Call(IF query_plan.queries[i].step = 1 THEN "API:step1" ELSE "API:step2",
             ApiRes(StepNet(env, query_plan.queries[i].step)))]

ComposeAnswer(env) ==
    IF env.compose THEN "analysis" ELSE "Unable to analyze the data properly."

LlmRes(response) == IF response = CUSTOM_ERROR_MESSAGE THEN "error" ELSE "ok"

Answered(calls, answer, path) == [calls |-> calls, answer |-> answer, path |-> path]
Unable == "Sorry, I am unable to answer this question .. cc @arvin"

\* Lines 551-568 of process_user_query: the multi-step branch
MultiStepAnswer(calls2, query_plan, env) ==
    IF ~query_plan.ok \/ query_plan.value = <<>>
    THEN Answered(calls2, "I couldn't understand your complex question.", "rephrase")
    ELSE IF "queries" \notin DOMAIN query_plan.value
    THEN Answered(calls2, Unable, "exception")
    ELSE IF "final_analysis_needed" \notin DOMAIN query_plan.value
    THEN Answered(calls2 \o StepCalls(query_plan.value, env), Unable, "exception")
    ELSE Answered(Append(calls2 \o StepCalls(query_plan.value, env),
                         Call("LLM:compose", PostRes(env.compose))),
                  ComposeAnswer(env), "multi-step")

\* Lines 570-585 of process_user_query: the single-query branch
SingleAnswer(calls3, api_query, api_response, env) ==
    IF ~api_query.ok \/ api_query.value = <<>>
    THEN Answered(calls3, "I couldn't understand your question.", "rephrase")
    ELSE IF HasError(api_response)
    THEN Answered(Append(calls3, Call("API", ApiRes(env.api))), "API Error", "api_error")
    ELSE Answered(Append(Append(calls3, Call("API", ApiRes(env.api))),
                         Call("LLM:compose", PostRes(env.compose))),
                  ComposeAnswer(env), "single")

\* Lines 541-551: the branch taken on the complexity decision
BranchOn(complexity_analysis, calls1, env) ==
    IF "complexity" \notin DOMAIN complexity_analysis
    THEN Answered(calls1, Unable, "exception")
    ELSE IF complexity_analysis.complexity = "multi-step"
    THEN MultiStepAnswer(Append(calls1, Call("LLM:plan", LlmRes(env.plan))),
                         generate_multi_step_queries(env.plan), env)
    ELSE SingleAnswer(Append(calls1, Call("LLM:query", LlmRes(env.route))),
                      extract_entities_and_generate_query(env.route),
                      query_influencer_api(env.api), env)

\* The try block of process_user_query (lines 540-592)
Answer(env) ==
    BranchOn(analyze_question_complexity(env.classify),
             <<Call("LLM:complexity", LlmRes(env.classify))>>, env)

\* The history entry of the answer and what is returned (lines 594-597)
Recorded(h1, session_id, a, clock) ==
    [history |-> add_to_conversation_history(h1, session_id, "assistant", a.answer, clock),
     answer |-> a.answer, calls |-> a.calls, path |-> a.path]

\* Returns the store after the call, the answer, and the calls issued
process_user_query(history, session_id, user_question, clock, env) ==
    Recorded(add_to_conversation_history(history, session_id, "user", user_question, clock),
             session_id, Answer(env), clock)

\* What process_user_query returned to the handler
Told(p) == [kind |-> "answer", answer |-> p.answer, path |-> p.path]

Greeting == "Hello! I'm your Influencer Analytics Assistant."

\* The update of the thinking note with the answer p of process_user_query
Answering(history, where, user_question, env, p) ==
    LET calls1 == <<Call("post:thinking", PostRes(env.thinking))>>
        thinking == Msg("Analyzing your influencer data...", "", where)
        sorry == Msg(Unable, "", where)
        update == Call("post:answer", PostRes(env.answer))
    IN  IF ~env.thinking
        THEN Run(calls1, <<sorry>>, history, 0, "failed", NoPrompt)
        ELSE IF user_question = ""
        THEN IF env.answer
             THEN Run(Append(calls1, update), <<Msg(Greeting, "", where)>>, history, 0,
                      "greeting", NoPrompt)
             ELSE Run(Append(calls1, update), <<thinking, sorry>>, history, 0,
                      "failed", NoPrompt)
        ELSE IF env.answer
             THEN Run(Append(calls1 \o p.calls, update), <<Msg("answer", p.answer, where)>>,
                      p.history, 0, p.path, Told(p))
             ELSE Run(Append(calls1 \o p.calls, update), <<thinking, sorry>>,
                      p.history, 0, "failed", Told(p))

\* handle_app_mention (where = the thread) and handle_direct_message (where = 0,
\* the DM channel): the thinking note, then the answer written over it
Conversation(history, session_id, where, user_question, clock, env) ==
    Answering(history, where, user_question, env,
              process_user_query(history, session_id, user_question, clock, env))

handle_app_mention(history, event, clock, env) ==
    Conversation(history, <<"thread", event.thread_ts>>, event.thread_ts, event.text,
                 clock, env)

handle_direct_message(history, event, clock, env) ==
    IF event.channel_type # "im" THEN Ignored(history, 0)
    ELSE IF event.subtype = "bot_message" THEN Ignored(history, 0)
    ELSE Conversation(history, <<"thread", event.thread_ts>>, 0, event.text, clock, env)

\* respond(...) with the answer p of process_user_query
Responding(history, command, env, p) ==
    LET respond == Call("post:answer", PostRes(env.answer))
        sorry == Msg(Unable, "", 0)
    IN  IF command.text = ""
        THEN IF env.answer
             THEN Run(<<respond>>, <<Msg(Greeting, "", 0)>>, history, 0, "greeting", NoPrompt)
             ELSE Run(<<respond>>, <<sorry>>, history, 0, "failed", NoPrompt)
        ELSE IF env.answer
             THEN Run(Append(p.calls, respond), <<Msg("answer", p.answer, 0)>>,
                      p.history, 0, p.path, Told(p))
             ELSE Run(Append(p.calls, respond), <<sorry>>, p.history, 0, "failed", Told(p))

\* handle_analytics_command and handle_slash_command, which differ in the
\* greeting only
handle_analytics_command(history, command, clock, env) ==
    Responding(history, command, env,
               process_user_query(history, <<"trigger", command.trigger_id>>, command.text,
                                  clock, env))

query_mapping(value) ==
    CASE value = "top_10_spend" -> "Top 10 influencers by total spend"
      [] value = "target_actual_uk" -> "Target vs actual performance for UK in 2024"
      [] value = "monthly_breakdown" -> "Monthly spending breakdown for all markets"
      [] OTHER -> "Analytics query"

\* client.chat_postMessage(...) with the answer p of process_user_query; the
\* except branch only logs
Posting(env, p) ==
    LET post == Call("post:answer", PostRes(env.answer))
    IN  IF env.answer
        THEN Run(Append(p.calls, post), <<Msg("Question and answer", p.answer, 0)>>,
                 p.history, 0, p.path, Told(p))
        ELSE Run(Append(p.calls, post), <<>>, p.history, 0, "failed", Told(p))

handle_quick_query_action(history, action, clock, env) ==
    Posting(env, process_user_query(history, <<"modal", action.ts>>,
                                    query_mapping(action.value), clock, env))

ClassifyReplies == { CUSTOM_ERROR_MESSAGE, <<JsonSingle>>,
                     <<Fence, "json", Blank, JsonMulti, Blank, Fence>>,
                     <<"Sure!", JsonMulti>>, <<Fence>>, <<JsonEmpty>> }
RouteReplies == { CUSTOM_ERROR_MESSAGE, <<Fence, "json", JsonQuery, Fence>>,
                  <<"Here", "is", JsonQuery>>, <<JsonEmpty>> }
PlanReplies == { CUSTOM_ERROR_MESSAGE, <<Fence, Blank, JsonPlan, Blank, Fence>>,
                 <<Fence, Blank, "json", JsonPlan, Fence>>, <<JsonPlanNoFinal>> }
ApiBodies == { [items |-> <<"anna">>] }

-----------------------------------------------------------------------------
(* The outcomes of the external services a handler run can meet *)

\* Every combination of service outcomes.  The run of a handler is a function
\* of the outcomes it meets: H[e] is what the handler leaves behind under e.
Environments ==
    [targets : Net(TargetBodies), actuals : Net(ActualBodies),
     gold : Net(GoldBodies), silver : Net(SilverBodies), bronze : Net(BronzeBodies),
     api : Net(CampaignBodies \cup BreakdownBodies \cup TrendBodies \cup ApiBodies),
     llm : LlmOutcomes, header : BOOLEAN, upload : BOOLEAN, failAt : 0..MaxChunks,
     classify : ClassifyReplies, route : RouteReplies, plan : PlanReplies,
     step1 : Net(ApiBodies), step2 : Net(ApiBodies),
     compose : BOOLEAN, thinking : BOOLEAN, answer : BOOLEAN]

\* The environments in S, each extended by every outcome of the call `api`
\* when the handler run H issues that call in it.
Stage(H, S, api, f, options) ==
    UNION {{[e EXCEPT ![f] = v] :
               v \in IF Issued(H[e], api) THEN options ELSE {e[f]}}
           : e \in S}

StageChunks(H, S) ==
    UNION {{[e EXCEPT !.failAt = v] :
               v \in IF Issued(H[e], "post:chunk") THEN 0..e.llm ELSE {0}}
           : e \in S}

\* The service outcomes a /monthly-review run can meet
MonthEnvs(H, targetBodies, actualBodies) ==
    LET S1 == Stage(H, {E0}, "Targets", "targets", Net(targetBodies))
        S2 == Stage(H, S1, "Actuals", "actuals", Net(actualBodies))
        S3 == Stage(H, S2, "LLM", "llm", LlmOutcomes)
        S4 == Stage(H, S3, "post:header", "header", BOOLEAN)
    IN  StageChunks(H, S4)

\* The service outcomes a follow-up can meet
FollowupEnvs(H, llmOptions) ==
    StageChunks(H, Stage(H, {E0}, "LLM", "llm", llmOptions))

\* The service outcomes a /plan run can meet
PlanEnvs(H) ==
    LET S1 == Stage(H, {E0}, "Targets", "targets", Net(TargetBodies))
        S2 == Stage(H, S1, "Actuals", "actuals", Net(ActualBodies))
        S3 == Stage(H, S2, "Discovery-Gold", "gold", Net(GoldBodies))
        S4 == Stage(H, S3, "Discovery-Silver", "silver", Net(SilverBodies))
        S5 == Stage(H, S4, "Discovery-Bronze", "bronze", Net(BronzeBodies))
        S6 == Stage(H, S5, "post:header", "header", BOOLEAN)
        S7 == Stage(H, S6, "post:upload", "upload", BOOLEAN)
        S8 == Stage(H, S7, "LLM", "llm", LlmOutcomes)
    IN  StageChunks(H, S8)

\* The service outcomes an /analyse-influencer run can meet
AnalyseEnvs(H) ==
    LET S1 == Stage(H, {E0}, "Influencer Analytics", "api", Net(CampaignBodies))
        S2 == Stage(H, S1, "LLM", "llm", LlmOutcomes)
        S3 == Stage(H, S2, "post:header", "header", BOOLEAN)
    IN  StageChunks(H, S3)

\* The service outcomes a weekly review can meet
WeeklyEnvs(H, endpoint) ==
    StageChunks(H, Stage(H, Stage(H, {E0}, endpoint, "api", Net(BreakdownBodies)),
                           "LLM", "llm", LlmOutcomes))

\* The service outcomes an influencer trend can meet
TrendEnvs(H) ==
    LET S1 == Stage(H, {E0}, "Discovery Tiers", "api", Net(TrendBodies))
        S2 == Stage(H, S1, "post:tables", "header", BOOLEAN)
        S3 == Stage(H, S2, "LLM", "llm", LlmOutcomes)
    IN  StageChunks(H, S3)

\* The service outcomes a turn of main.py can meet
MainEnvs(H) ==
    LET S1 == Stage(H, {E0}, "post:thinking", "thinking", BOOLEAN)
        S2 == Stage(H, S1, "LLM:complexity", "classify", ClassifyReplies)
        S3 == Stage(H, S2, "LLM:query", "route", RouteReplies)
        S4 == Stage(H, S3, "LLM:plan", "plan", PlanReplies)
        S5 == Stage(H, S4, "API", "api", Net(ApiBodies))
        S6 == Stage(H, S5, "API:step1", "step1", Net(ApiBodies))
        S7 == Stage(H, S6, "API:step2", "step2", Net(ApiBodies))
        S8 == Stage(H, S7, "LLM:compose", "compose", BOOLEAN)
    IN  Stage(H, S8, "post:answer", "answer", BOOLEAN)

-----------------------------------------------------------------------------
(* The state machine *)

NoTurn == [handler |-> "none", thread |-> 0, input |-> <<>>, env |-> E0,
           calls |-> <<>>, msgs |-> <<>>, status |-> "none", prompt |-> NoPrompt,
           wrote |-> 0]

\* The record of a handler run
Turn(handler, thread, input, env, r, wrote) ==
    [handler |-> handler, thread |-> thread, input |-> input, env |-> env,
     calls |-> r.calls, msgs |-> r.msgs, status |-> r.status, prompt |-> r.prompt,
     wrote |-> wrote]

\* The listener threads of main.py (slack_bolt runs each listener in a thread
\* of its pool) and where each one stands in process_user_query
Workers == 1..2
Idle == [pc |-> "idle", phase |-> "none", session |-> 0, question |-> 0,
         slice |-> <<>>, threads_to_remove |-> {}]
NoTrace == [inserted |-> 0, swept |-> 0, arrived |-> 0, appended |-> <<>>]

\* A process that serves events
Running == [state |-> "running", code |-> 0, app |-> TRUE, reported |-> <<>>, environ |-> {}]

Programs == {"month", "plan", "influencer", "unified", "main"}

Init ==
    /\ program \in Programs
    /\ review_data_store = EmptyDict
    /\ THREAD_CONTEXT = EmptyDict
    /\ thread_context_store = EmptyDict
    /\ ordered_context_store = <<>>
    /\ conversation_history = EmptyDict
    /\ next_ts = 1
    /\ now = 0
    /\ turn = NoTurn
    /\ workers = [w \in Workers |-> Idle]
    /\ process = Running
    /\ trace = NoTrace

\* The number of entries of `new` that `old` does not hold as they are
Written(old, new) ==
    Cardinality({k \in DOMAIN new : k \notin DOMAIN old \/ old[k] # new[k]})

\* /monthly-review <text>
MonthlyReview(maxTs, texts, targetBodies, actualBodies) ==
    /\ program \in {"month", "month+plan"}
    /\ turn = NoTurn
    /\ next_ts <= maxTs
    /\ \E text \in texts :
       LET H == [e \in Environments |->
                    handle_monthly_review_command(review_data_store, next_ts, text, e)]
       IN  \E e \in MonthEnvs(H, targetBodies, actualBodies) : \E r \in {H[e]} :
              /\ review_data_store' = r.store
              /\ next_ts' = r.ts
              /\ turn' = Turn("monthly_review", next_ts, text, e, r, r.writes)
    /\ UNCHANGED <<program, THREAD_CONTEXT, thread_context_store,
                   ordered_context_store, conversation_history, now,
                   workers, trace, process>>

\* /plan <text>
Plan ==
    /\ program \in {"plan", "month+plan"}
    /\ turn = NoTurn
    /\ next_ts <= MaxThreads
    /\ \E text \in PlanTexts :
       LET H == [e \in Environments |->
                    handle_plan_command(THREAD_CONTEXT, next_ts, now, text, e)]
       IN  \E e \in PlanEnvs(H) : \E r \in {H[e]} :
              /\ THREAD_CONTEXT' = r.store
              /\ next_ts' = r.ts
              /\ turn' = Turn("plan", next_ts, text, e, r, r.writes)
    /\ UNCHANGED <<program, review_data_store, thread_context_store,
                   ordered_context_store, conversation_history, now,
                   workers, trace, process>>

ReplyThreads == 0..(MaxThreads + 1)
ReplyTexts == {"<@U1> which tier is best?", "thanks"}

\* A message event arrives at month.py
MonthThreadMessage ==
    /\ program \in {"month", "month+plan"}
    /\ turn = NoTurn
    /\ \E thread_ts \in ReplyThreads, bot_id \in BOOLEAN, text \in ReplyTexts :
       LET event == [thread_ts |-> thread_ts, bot_id |-> bot_id, text |-> text]
           H == [e \in Environments |->
                    MonthThreadMessages(review_data_store, next_ts, event, e)]
       IN  \E e \in FollowupEnvs(H, LlmOutcomes) : \E r \in {H[e]} :
              /\ review_data_store' = r.store
              /\ turn' = Turn("month_thread", thread_ts, <<text>>, e, r, r.writes)
    /\ UNCHANGED <<program, THREAD_CONTEXT, thread_context_store, ordered_context_store,
                   conversation_history, next_ts, now,
                   workers, trace, process>>

\* A message event arrives at plan.py
PlanThreadReply ==
    /\ program \in {"plan", "month+plan"}
    /\ turn = NoTurn
    /\ \E thread_ts \in ReplyThreads, text \in ReplyTexts \cup {""} :
       LET event == [thread_ts |-> thread_ts, text |-> text]
           H == [e \in Environments |->
                    handle_thread_replies(THREAD_CONTEXT, next_ts, event, e)]
       IN  \E e \in FollowupEnvs(H, {LlmRaises, 1}) : \E r \in {H[e]} :
              /\ THREAD_CONTEXT' = r.store
              /\ turn' = Turn("plan_thread", thread_ts, <<text>>, e, r, r.writes)
    /\ UNCHANGED <<program, review_data_store, thread_context_store, ordered_context_store,
                   conversation_history, next_ts, now,
                   workers, trace, process>>

\* /analyse-influencer <text>
AnalyseInfluencer ==
    /\ program = "influencer"
    /\ turn = NoTurn
    /\ next_ts <= MaxThreads
    /\ \E text \in AnalyseTexts :
       LET H == [e \in Environments |->
                    handle_analyse_influencer_command(thread_context_store, next_ts, text, e)]
       IN  \E e \in AnalyseEnvs(H) : \E r \in {H[e]} :
              /\ thread_context_store' = r.store
              /\ next_ts' = r.ts
              /\ turn' = Turn("analyse_influencer", next_ts, text, e, r, r.writes)
    /\ UNCHANGED <<program, review_data_store, THREAD_CONTEXT, ordered_context_store,
                   conversation_history, now,
                   workers, trace, process>>

\* A message event arrives at influencer.py
InfluencerThreadMessage ==
    /\ program = "influencer"
    /\ turn = NoTurn
    /\ \E thread_ts \in ReplyThreads, bot_id \in BOOLEAN, text \in ReplyTexts :
       LET event == [thread_ts |-> thread_ts, bot_id |-> bot_id, text |-> text]
           H == [e \in Environments |->
                    InfluencerThreadMessages(thread_context_store, next_ts, event, e)]
       IN  \E e \in FollowupEnvs(H, LlmOutcomes) : \E r \in {H[e]} :
              /\ thread_context_store' = r.store
              /\ turn' = Turn("influencer_thread", thread_ts, <<text>>, e, r, r.writes)
    /\ UNCHANGED <<program, review_data_store, THREAD_CONTEXT, ordered_context_store,
                   conversation_history, next_ts, now,
                   workers, trace, process>>

WeeklyByRange ==
    /\ program = "unified"
    /\ turn = NoTurn
    /\ \E thread_ts \in Threads, params \in RangeParams :
       LET H == [e \in Environments |->
                    run_weekly_review_by_range(ordered_context_store, thread_ts, params, e)]
       IN  \E e \in WeeklyEnvs(H, "Date Range Breakdown") : \E r \in {H[e]} :
              /\ ordered_context_store' = r.store
              /\ turn' = Turn("weekly_by_range", thread_ts, <<params>>, e, r, r.writes)
    /\ UNCHANGED <<program, review_data_store, THREAD_CONTEXT, thread_context_store,
                   conversation_history, next_ts, now,
                   workers, trace, process>>

WeeklyByNumber ==
    /\ program = "unified"
    /\ turn = NoTurn
    /\ \E thread_ts \in Threads, params \in NumberParams :
       LET H == [e \in Environments |->
                    run_weekly_review_by_number(ordered_context_store, thread_ts, params, e)]
       IN  \E e \in WeeklyEnvs(H, "Week Number Breakdown") : \E r \in {H[e]} :
              /\ ordered_context_store' = r.store
              /\ turn' = Turn("weekly_by_number", thread_ts, <<params>>, e, r, r.writes)
    /\ UNCHANGED <<program, review_data_store, THREAD_CONTEXT, thread_context_store,
                   conversation_history, next_ts, now,
                   workers, trace, process>>

InfluencerTrend ==
    /\ program = "unified"
    /\ turn = NoTurn
    /\ \E thread_ts \in Threads, params \in TrendParams :
       LET H == [e \in Environments |->
                    run_influencer_trend(ordered_context_store, thread_ts, params, e)]
       IN  \E e \in TrendEnvs(H) : \E r \in {H[e]} :
              /\ ordered_context_store' = r.store
              /\ turn' = Turn("influencer_trend", thread_ts, <<params>>, e, r, r.writes)
    /\ UNCHANGED <<program, review_data_store, THREAD_CONTEXT, thread_context_store,
                   conversation_history, next_ts, now,
                   workers, trace, process>>

\* A reply in a thread reaches the caller of weekly.py and trend.py
UnifiedThreadMessage ==
    /\ program = "unified"
    /\ turn = NoTurn
    /\ \E thread_ts \in Threads \cup {MaxThreads + 1}, text \in {"and per week?"} :
       LET event == [thread_ts |-> thread_ts, text |-> text]
           H == [e \in Environments |-> RouteFollowup(ordered_context_store, event, e)]
       IN  \E e \in FollowupEnvs(H, LlmOutcomes) : \E r \in {H[e]} :
              /\ ordered_context_store' = r.store
              /\ turn' = Turn("unified_thread", thread_ts, <<text>>, e, r, r.writes)
    /\ UNCHANGED <<program, review_data_store, THREAD_CONTEXT, thread_context_store,
                   conversation_history, next_ts, now,
                   workers, trace, process>>

Questions == {"", "Top 10 influencers by total spend"}

\* @bot <text>, in an existing thread or starting one
AppMention ==
    /\ program = "main"
    /\ turn = NoTurn
    /\ next_ts <= MaxThreads
    /\ \E thread_ts \in 1..next_ts, text \in Questions :
       LET event == [thread_ts |-> thread_ts, text |-> text]
           H == [e \in Environments |->
                    handle_app_mention(conversation_history, event, now, e)]
       IN  \E e \in MainEnvs(H) : \E r \in {H[e]} :
              /\ conversation_history' = r.store
              /\ turn' = Turn("app_mention", thread_ts, <<text>>, e, r,
                              Written(conversation_history, r.store))
    /\ next_ts' = next_ts + 1
    /\ UNCHANGED <<program, review_data_store, THREAD_CONTEXT, thread_context_store,
                   ordered_context_store, now,
                   workers, trace, process>>

\* A message in the DM channel
DirectMessage ==
    /\ program = "main"
    /\ turn = NoTurn
    /\ next_ts <= MaxThreads
    /\ \E thread_ts \in {next_ts}, text \in Questions,
          kind \in {<<"im", "none">>, <<"im", "bot_message">>, <<"channel", "none">>} :
       LET channel_type == kind[1]
           subtype == kind[2]
           event == [thread_ts |-> thread_ts, text |-> text,
                     channel_type |-> channel_type, subtype |-> subtype]
           H == [e \in Environments |->
                    handle_direct_message(conversation_history, event, now, e)]
       IN  \E e \in MainEnvs(H) : \E r \in {H[e]} :
              /\ conversation_history' = r.store
              /\ turn' = Turn("direct_message", thread_ts,
                              <<text, channel_type, subtype>>, e, r,
                              Written(conversation_history, r.store))
    /\ next_ts' = next_ts + 1
    /\ UNCHANGED <<program, review_data_store, THREAD_CONTEXT, thread_context_store,
                   ordered_context_store, now,
                   workers, trace, process>>

\* /analytics <text> and /influencer <text>
AnalyticsCommand ==
    /\ program = "main"
    /\ turn = NoTurn
    /\ next_ts <= MaxThreads
    /\ \E text \in Questions :
       LET command == [trigger_id |-> next_ts, text |-> text]
           H == [e \in Environments |->
                    handle_analytics_command(conversation_history, command, now, e)]
       IN  \E e \in MainEnvs(H) : \E r \in {H[e]} :
              /\ conversation_history' = r.store
              /\ turn' = Turn("slash_command", next_ts, <<text>>, e, r,
                              Written(conversation_history, r.store))
    /\ next_ts' = next_ts + 1
    /\ UNCHANGED <<program, review_data_store, THREAD_CONTEXT, thread_context_store,
                   ordered_context_store, now,
                   workers, trace, process>>

\* A click on a quick-query button
QuickQuery ==
    /\ program = "main"
    /\ turn = NoTurn
    /\ next_ts <= MaxThreads
    /\ \E value \in {"top_10_spend"} :
       LET action == [value |-> value, ts |-> next_ts]
           H == [e \in Environments |->
                    handle_quick_query_action(conversation_history, action, now, e)]
       IN  \E e \in MainEnvs(H) : \E r \in {H[e]} :
              /\ conversation_history' = r.store
              /\ turn' = Turn("quick_query", next_ts, <<value>>, e, r,
                              Written(conversation_history, r.store))
    /\ next_ts' = next_ts + 1
    /\ UNCHANGED <<program, review_data_store, THREAD_CONTEXT, thread_context_store,
                   ordered_context_store, now,
                   workers, trace, process>>

\* A caller asks for the formatted history of a thread
ConversationContext ==
    /\ program = "main"
    /\ turn = NoTurn
    /\ \E thread_ts \in 1..next_ts :
       LET got == get_conversation_context(conversation_history, <<"thread", thread_ts>>)
       IN  /\ conversation_history' = got.history
           /\ turn' = Turn("get_conversation_context", thread_ts, got.lines, E0,
                           Run(<<>>, <<>>, got.history, 0, "ok", NoPrompt),
                           Written(conversation_history, got.history))
    /\ UNCHANGED <<program, review_data_store, THREAD_CONTEXT, thread_context_store,
                   ordered_context_store, next_ts, now,
                   workers, trace, process>>

\* The handler has returned and the dispatcher waits for the next event
Dispatch ==
    /\ turn # NoTurn
    /\ turn' = NoTurn
    /\ UNCHANGED <<program, review_data_store, THREAD_CONTEXT, thread_context_store,
                   ordered_context_store, conversation_history, next_ts, now,
                   workers, trace, process>>

Next ==
    \/ MonthlyReview(MaxThreads, CommandTexts, TargetBodies, ActualBodies)
    \/ MonthThreadMessage
    \/ Plan
    \/ PlanThreadReply
    \/ AnalyseInfluencer
    \/ InfluencerThreadMessage
    \/ WeeklyByRange
    \/ WeeklyByNumber
    \/ InfluencerTrend
    \/ UnifiedThreadMessage
    \/ AppMention
    \/ DirectMessage
    \/ AnalyticsCommand
    \/ QuickQuery
    \/ ConversationContext
    \/ Dispatch

Spec == Init /\ [][Next]_vars

\* A run of month.py that only creates threads: one well-formed command, the
\* analytics data always the same
GrowInit == Init /\ program = "month"

GrowNext ==
    \/ MonthlyReview(GrowThreads, { <<"UK", "December", "2025">> },
                     { [total_target_budget |-> 100] },
                     { [budget_spent_eur |-> 40, conversions |-> 3,
                        influencers |-> <<"anna">>] })
    \/ Dispatch

SpecGrow == GrowInit /\ [][GrowNext]_vars

\* month.py and plan.py both running in one workspace, each with its own store
PivotInit ==
    /\ program = "month+plan"
    /\ review_data_store = EmptyDict
    /\ THREAD_CONTEXT = EmptyDict
    /\ thread_context_store = EmptyDict
    /\ ordered_context_store = <<>>
    /\ conversation_history = EmptyDict
    /\ next_ts = 1
    /\ now = 0
    /\ turn = NoTurn
    /\ workers = [w \in Workers |-> Idle]
    /\ process = Running
    /\ trace = NoTrace

PivotNext ==
    \/ MonthlyReview(MaxThreads, CommandTexts, TargetBodies, ActualBodies)
    \/ MonthThreadMessage
    \/ Plan
    \/ PlanThreadReply
    \/ Dispatch

SpecPivot == PivotInit /\ [][PivotNext]_vars

-----------------------------------------------------------------------------
(* split_message_for_slack of month.py, plan.py, trend.py, influencer.py and *)
(* weekly.py *)

MAX_LENGTH == 2800   \* max_length: int = 2800
TextLen == 1397      \* characters of a line of text: two of them and a fence fill a chunk
MaxLines == 5        \* lines of a message

\* A text is kept as its lines with "\n" between them; a line is the opening
\* or closing line of a code block (Fence, three characters), a line of text,
\* or an empty line
NL == "\n"
SplitLines == {Fence, "text", "more", ""}
LineLen(line) ==
    CASE line = Fence -> 3
      [] line \in {"text", "more"} -> TextLen
      [] line = NL -> 1
      [] OTHER -> 0

\* len(s)
RECURSIVE StrLen(_)
StrLen(s) == IF s = <<>> THEN 0 ELSE LineLen(Head(s)) + StrLen(Tail(s))

\* "\n".join(lines)
RECURSIVE Joined(_)
Joined(lines) ==
    IF Len(lines) <= 1 THEN lines ELSE <<Head(lines), NL>> \o Joined(Tail(lines))

\* s.strip(): no line of the model has blanks at its ends
RECURSIVE StripChunk(_)
StripChunk(s) ==
    IF s = <<>> THEN s
    ELSE IF Head(s) \in {NL, ""} THEN StripChunk(Tail(s))
    ELSE IF Last(s) \in {NL, ""} THEN StripChunk(SubSeq(s, 1, Len(s) - 1))
    ELSE s

\* line.strip().startswith(Fence)
IsFence(line) == line = Fence

\* The three texts of the function: month.py and plan.py ("month"), trend.py and
\* influencer.py ("trend"), weekly.py ("weekly", which does not look at fences)
SplitFiles == {"month", "trend", "weekly"}

\* The test before a chunk is appended: `if current_chunk.strip():` in month.py
\* and weekly.py, `if current_chunk:` in trend.py
Kept(current_chunk, file) ==
    IF file = "trend" THEN current_chunk # <<>> ELSE StripChunk(current_chunk) # <<>>

\* The chunk that is appended: current_chunk.strip() in month.py, current_chunk
\* in trend.py and weekly.py
Out(current_chunk, file) ==
    IF file = "month" THEN StripChunk(current_chunk) ELSE current_chunk

SplitState(chunks, current_chunk, in_code_block) ==
    [chunks |-> chunks, current_chunk |-> current_chunk, in_code_block |-> in_code_block]

\* Flush with the next chunk started empty: the line that did not fit is lost
Flush_dropping(chunks, closed_chunk, line, in_code_block, file) ==
    SplitState(IF Kept(closed_chunk, file) THEN Append(chunks, Out(closed_chunk, file))
               ELSE chunks,
               IF in_code_block THEN <<Fence, NL>> ELSE <<>>,
               in_code_block)

\* The chunk is full: it is closed if a code block is open, appended, and the
\* next one is started with the line
Flush(chunks, closed_chunk, line, in_code_block, file) ==
    SplitState(IF Kept(closed_chunk, file) THEN Append(chunks, Out(closed_chunk, file))
               ELSE chunks,
               IF in_code_block THEN <<Fence, NL, line, NL>> ELSE <<line, NL>>,
               in_code_block)

\* One pass of the loop, after in_code_block was toggled on a fence line
SplitLine(s, line, in_code_block, max_length, file) ==
    IF StrLen(s.current_chunk) + LineLen(line) + 1 > max_length
    THEN IF in_code_block /\ Kept(s.current_chunk, file)
         THEN Flush(s.chunks, s.current_chunk \o <<NL, Fence>>, line, FALSE, file)
         ELSE Flush(s.chunks, s.current_chunk, line, in_code_block, file)
    ELSE SplitState(s.chunks, s.current_chunk \o <<line, NL>>, in_code_block)

\* for line in lines: ...
RECURSIVE SplitLoop(_, _, _, _)
SplitLoop(s, lines, max_length, file) ==
    IF lines = <<>> THEN s
    ELSE SplitLoop(SplitLine(s, Head(lines),
                             IF file # "weekly" /\ IsFence(Head(lines))
                             THEN ~s.in_code_block ELSE s.in_code_block,
                             max_length, file),
                   Tail(lines), max_length, file)

\* The last chunk
Finished(s, file) ==
    IF Kept(s.current_chunk, file) THEN Append(s.chunks, Out(s.current_chunk, file))
    ELSE s.chunks

\* split_message_for_slack(message, max_length) for message = "\n".join(lines)
split_message_for_slack(lines, max_length, file) ==
    IF file = "weekly" /\ lines = <<"">> THEN <<>>
    ELSE IF StrLen(Joined(lines)) <= max_length THEN <<Joined(lines)>>
    ELSE Finished(SplitLoop(SplitState(<<>>, <<>>, FALSE), lines, max_length, file), file)

Messages == UNION {[1..n -> SplitLines] : n \in 1..MaxLines}

\* The files a program is made of that hold the function
FilesOf(p) ==
    CASE p \in {"month", "plan"} -> {"month"}
      [] p = "influencer" -> {"trend"}
      [] OTHER -> {"weekly", "trend"}

SplitInit == Init /\ program \in {"month", "plan", "influencer", "unified"}

\* An answer of the LLM is split for posting
SplitMessage ==
    /\ turn = NoTurn
    /\ \E lines \in Messages, file \in FilesOf(program) :
          turn' = Turn("split_message_for_slack", 0,
                       [message |-> lines, max_length |-> MAX_LENGTH, file |-> file], E0,
                       Run(<<>>, split_message_for_slack(lines, MAX_LENGTH, file),
                           EmptyDict, 0, "ok", NoPrompt), 0)
    /\ UNCHANGED <<program, review_data_store, THREAD_CONTEXT, thread_context_store,
                   ordered_context_store, conversation_history, next_ts, now,
                   workers, trace, process>>

SplitNext ==
    \/ SplitMessage
    \/ Dispatch

SpecSplit == SplitInit /\ [][SplitNext]_vars

-----------------------------------------------------------------------------
(* allocate_budget_cascading_tiers of plan.py on the lists the discovery    *)
(* fetches can hand it                                                      *)

MaxTier == 2   \* influencers of the Gold tier and of the Silver tier

\* Average spends (49 is 98% of the budget 50) and remaining budgets
Spends == {0, 1, 30, 49}
Budgets == {0, 50, 80}

\* The lists of a tier: influencer number i of the tier with any spend
TierLists(tier, n) ==
    UNION {[1..k -> Spends] : k \in 0..n}
TierOf(tier, spends) == [i \in 1..Len(spends) |-> Inf(<<tier, i>>, spends[i])]

AllocateInit == Init /\ program = "plan"

\* Section 5 of handle_plan_command hands the three lists and the budget over
Allocate ==
    /\ turn = NoTurn
    /\ \E g \in TierLists("Gold", MaxTier), s \in TierLists("Silver", MaxTier),
         b \in TierLists("Bronze", 1), remaining_budget \in Budgets :
          \E r \in {allocate_budget_cascading_tiers(TierOf("Gold", g), TierOf("Silver", s),
                                                    TierOf("Bronze", b), remaining_budget,
                                                    EFFECTIVE_CAC, "FRANCE")} :
             turn' = [NoTurn EXCEPT
                        !.handler = "allocate_budget_cascading_tiers",
                        !.input = [Gold |-> TierOf("Gold", g), Silver |-> TierOf("Silver", s),
                                   Bronze |-> TierOf("Bronze", b),
                                   remaining_budget |-> remaining_budget],
                        !.status = "returned",
                        !.prompt = [kind |-> "allocation", recs |-> r.recs,
                                    allocated |-> r.allocated, breakdown |-> r.breakdown]]
    /\ UNCHANGED <<program, review_data_store, THREAD_CONTEXT, thread_context_store,
                   ordered_context_store, conversation_history, next_ts, now,
                   workers, trace, process>>

AllocateNext ==
    \/ Allocate
    \/ Dispatch

SpecAllocate == AllocateInit /\ [][AllocateNext]_vars

-----------------------------------------------------------------------------
(* execute_multi_step_queries of main.py on the plans the LLM can hand back *)

MaxSteps == 3   \* steps of a query plan

\* A step as the prompt asks for it, and one the LLM left the purpose out of
PlanSteps ==
    {QueryStep(n, "dashboard") : n \in 1..2}
        \cup {[step |-> n, query |-> [source |-> "dashboard"]] : n \in 1..2}
QueryPlans ==
    {[queries |-> q, final_analysis_needed |-> "allocate"] :
        q \in UNION {[1..n -> PlanSteps] : n \in 1..MaxSteps}}

StepsInit == Init /\ program = "main"

\* The multi-step branch of process_user_query runs the plan; `nets` are the
\* outcomes of the API calls in the order they are issued
ExecuteSteps ==
    /\ turn = NoTurn
    /\ \E query_plan \in QueryPlans :
          \E nets \in [1..Len(query_plan.queries) -> Net(ApiBodies)] :
             \E r \in {execute_multi_step_queries(query_plan, nets)} :
                turn' = [NoTurn EXCEPT
                           !.handler = "execute_multi_step_queries",
                           !.input = query_plan,
                           !.calls = r.calls,
                           !.status = IF r.raised THEN "raised" ELSE "returned",
                           !.prompt = [kind |-> "multi-step", results |-> r.results]]
    /\ UNCHANGED <<program, review_data_store, THREAD_CONTEXT, thread_context_store,
                   ordered_context_store, conversation_history, next_ts, now,
                   workers, trace, process>>

StepsNext ==
    \/ ExecuteSteps
    \/ Dispatch

SpecSteps == StepsInit /\ [][StepsNext]_vars

-----------------------------------------------------------------------------
(* Process start: the module initialisation and the __main__ block of      *)
(* month.py, plan.py, influencer.py and main.py.  The entry file of the    *)
(* program made of weekly.py and trend.py is not among the sources.        *)

\* The environment variables a program reads without a default; the
\* environment of a run is the set of them that are defined
EnvVars(p) ==
    IF p = "main"
    THEN {"SLACK_BOT_TOKEN", "SLACK_APP_TOKEN", "GEMINI_API_KEY", "GOOGLE_API_KEY",
          "LANGFUSE_PUBLIC_KEY", "LANGFUSE_SECRET_KEY"}
    ELSE {"SLACK_BOT_TOKEN", "SLACK_APP_TOKEN", "GOOGLE_API_KEY"}

Starting == [state |-> "starting", code |-> 0, app |-> FALSE, reported |-> <<>>, environ |-> {}]

\* sys.exit(code) after `reported` was logged
Exited(code, app, reported, environ) ==
    [state |-> "exited", code |-> code, app |-> app, reported |-> reported,
     environ |-> environ]

\* handler.start(): the process serves events, or the connection fails and
\* the except branch (main.py: the finally branch) exits
Started(connects, environ) ==
    IF connects THEN [Running EXCEPT !.environ = environ]
    ELSE Exited(1, TRUE, <<"Failed to start the bot">>, environ)

\* main.py l.38-42: one name for each test that finds no value
Unless(present, name) == IF present THEN <<>> ELSE <<name>>
missing_vars(environ) ==
    Unless("SLACK_BOT_TOKEN" \in environ, "SLACK_BOT_TOKEN")
    \o Unless("SLACK_APP_TOKEN" \in environ, "SLACK_APP_TOKEN")
    \o Unless("GEMINI_API_KEY" \in environ \/ "GOOGLE_API_KEY" \in environ,
              "GEMINI_API_KEY or GOOGLE_API_KEY")
    \o Unless("LANGFUSE_PUBLIC_KEY" \in environ, "LANGFUSE_PUBLIC_KEY")
    \o Unless("LANGFUSE_SECRET_KEY" \in environ, "LANGFUSE_SECRET_KEY")

\* month.py l.23-34 with the App created before GOOGLE_API_KEY is read
module_initialisation_app_first(environ, connects) ==
    IF "SLACK_BOT_TOKEN" \notin environ THEN Exited(1, FALSE, <<"SLACK_BOT_TOKEN">>, environ)
    ELSE IF "SLACK_APP_TOKEN" \notin environ
    THEN Exited(1, FALSE, <<"SLACK_APP_TOKEN">>, environ)
    ELSE IF "GOOGLE_API_KEY" \notin environ
    THEN Exited(1, TRUE, <<"GOOGLE_API_KEY">>, environ)
    ELSE Started(connects, environ)

\* month.py l.23-34 (plan.py l.25-36, influencer.py l.24-35): os.environ[...]
\* raises KeyError at the first variable that is not defined, before App(...)
module_initialisation(environ, connects) ==
    IF "SLACK_BOT_TOKEN" \notin environ THEN Exited(1, FALSE, <<"SLACK_BOT_TOKEN">>, environ)
    ELSE IF "SLACK_APP_TOKEN" \notin environ
    THEN Exited(1, FALSE, <<"SLACK_APP_TOKEN">>, environ)
    ELSE IF "GOOGLE_API_KEY" \notin environ
    THEN Exited(1, FALSE, <<"GOOGLE_API_KEY">>, environ)
    ELSE Started(connects, environ)

\* main.py l.24-51 and l.914-934
main_initialisation(environ, connects) ==
    IF missing_vars(environ) # <<>> THEN Exited(1, FALSE, missing_vars(environ), environ)
    ELSE Started(connects, environ)

StartInit ==
    /\ program \in {"month", "plan", "influencer", "main"}
    /\ review_data_store = EmptyDict
    /\ THREAD_CONTEXT = EmptyDict
    /\ thread_context_store = EmptyDict
    /\ ordered_context_store = <<>>
    /\ conversation_history = EmptyDict
    /\ next_ts = 1
    /\ now = 0
    /\ turn = NoTurn
    /\ workers = [w \in Workers |-> Idle]
    /\ trace = NoTrace
    /\ process = Starting

\* `python <program>.py` in some environment
Start ==
    /\ process.state = "starting"
    /\ \E environ \in SUBSET EnvVars(program), connects \in BOOLEAN :
          process' = IF program = "main" THEN main_initialisation(environ, connects)
                     ELSE module_initialisation(environ, connects)
    /\ UNCHANGED <<program, review_data_store, THREAD_CONTEXT, thread_context_store,
                   ordered_context_store, conversation_history, next_ts, now, turn,
                   workers, trace>>

\* The handlers run in the process that started
Serve ==
    /\ process.state = "running"
    /\ \/ MonthlyReview(MaxThreads, CommandTexts, TargetBodies, ActualBodies)
       \/ MonthThreadMessage
       \/ Plan
       \/ PlanThreadReply
       \/ AnalyseInfluencer
       \/ InfluencerThreadMessage
       \/ AppMention
       \/ DirectMessage
       \/ AnalyticsCommand
       \/ QuickQuery
       \/ ConversationContext
       \/ Dispatch

StartNext ==
    \/ Start
    \/ Serve

SpecStart == StartInit /\ [][StartNext]_vars

-----------------------------------------------------------------------------
(* main.py with its listener threads: process_user_query statement by statement *)

WarmSessions == 9    \* sessions answered before the listeners are observed
MaxArrivals == 2     \* questions that arrive while they are observed
TickHours == 24      \* hours one step of the clock takes
MaxClock == 48       \* the clock stops here

\* The history entry of line 140-142
Entry(role, content, clock) == [role |-> role, content |-> content, timestamp |-> clock]

\* The entries of a thread after n questions were answered in it at hour 0
\* (process_user_query lines 538 and 595)
Rounds(n) ==
    [i \in 1..(2 * n) |-> Entry(IF i % 2 = 1 THEN "user" ELSE "assistant", 0, 0)]

\* The store after `depth` questions in thread 1 and one question in each of the
\* threads 2..k, all answered at hour 0, and what the log counts by then: two
\* appends a question, and a sweep (which finds nothing to remove at hour 0)
\* after each append that leaves a multiple of ten threads
Warm(k, depth) ==
    [history |-> [t \in {<<"thread", i>> : i \in 1..k} |->
                     IF t[2] = 1 THEN Rounds(depth) ELSE Rounds(1)],
     inserted |-> 2 * (depth + k - 1),
     swept |-> 2 * (k \div 10)]

StoreInit ==
    /\ program = "main"
    /\ review_data_store = EmptyDict
    /\ THREAD_CONTEXT = EmptyDict
    /\ thread_context_store = EmptyDict
    /\ ordered_context_store = <<>>
    /\ \E k \in {WarmSessions - 1, WarmSessions}, depth \in {1, MAX_HISTORY_PER_THREAD \div 2} :
          \E s \in {Warm(k, depth)} :
             /\ conversation_history = s.history
             /\ trace = [NoTrace EXCEPT !.inserted = s.inserted, !.swept = s.swept]
    /\ next_ts = WarmSessions + 1
    /\ now = 0
    /\ turn = NoTurn
    /\ workers = [w \in Workers |-> Idle]
    /\ process = Running

StoreFrame ==
    UNCHANGED <<program, review_data_store, THREAD_CONTEXT, thread_context_store,
                ordered_context_store, next_ts, turn, process>>

\* Where add_to_conversation_history returns to
Returned(w) ==
    IF workers[w].phase = "user" THEN [workers[w] EXCEPT !.pc = "answer"] ELSE Idle

\* A question arrives and a listener thread starts process_user_query
Arrive(w) ==
    /\ workers[w].pc = "idle"
    /\ trace.arrived < MaxArrivals
    /\ \E ts \in {1, next_ts} :
          workers' = [workers EXCEPT ![w] = [Idle EXCEPT !.pc = "append", !.phase = "user",
                                                         !.session = <<"thread", ts>>,
                                                         !.question = trace.arrived + 1]]
    /\ trace' = [trace EXCEPT !.arrived = @ + 1]
    /\ UNCHANGED <<conversation_history, now>>
    /\ StoreFrame

\* Lines 140-142: conversation_history[thread_id].append({...})
AppendEntry(w) ==
    /\ workers[w].pc = "append"
    /\ LET t == workers[w].session
           old == IF Has(conversation_history, t) THEN conversation_history[t] ELSE <<>>
           entry == Entry(workers[w].phase, workers[w].question, now)
       IN  /\ conversation_history' = Put(conversation_history, t, Append(old, entry))
           /\ trace' = [trace EXCEPT !.inserted = @ + 1,
                                     !.appended = Append(@, [session |-> t, entry |-> entry])]
    /\ workers' = [workers EXCEPT ![w].pc = "length"]
    /\ UNCHANGED now
    /\ StoreFrame

\* Line 143 and the right-hand side of line 144; reading the defaultdict puts
\* an empty list under a thread_id that is no longer in it
TestLength(w) ==
    /\ workers[w].pc = "length"
    /\ LET t == workers[w].session
           h == IF Has(conversation_history, t) THEN conversation_history
                ELSE Put(conversation_history, t, <<>>)
       IN  /\ conversation_history' = h
           /\ workers' = IF Len(h[t]) > MAX_HISTORY_PER_THREAD
                         THEN [workers EXCEPT ![w].pc = "assign",
                                              ![w].slice = LastN(h[t], MAX_HISTORY_PER_THREAD)]
                         ELSE [workers EXCEPT ![w].pc = "modulo"]
    /\ UNCHANGED <<now, trace>>
    /\ StoreFrame

\* The assignment of line 144
AssignSlice(w) ==
    /\ workers[w].pc = "assign"
    /\ conversation_history' = Put(conversation_history, workers[w].session, workers[w].slice)
    /\ workers' = [workers EXCEPT ![w].pc = "modulo", ![w].slice = <<>>]
    /\ UNCHANGED <<now, trace>>
    /\ StoreFrame

\* Line 145, and lines 129-133 of cleanup_old_conversations when it is called
TestModulo(w) ==
    /\ workers[w].pc = "modulo"
    /\ IF Cardinality(DOMAIN conversation_history) % 10 = 0
       THEN /\ workers' = [workers EXCEPT
                              ![w].pc = "delete",
                              ![w].threads_to_remove =
                                  DOMAIN conversation_history
                                     \ DOMAIN cleanup_old_conversations(conversation_history, now)]
            /\ trace' = [trace EXCEPT !.swept = @ + 1]
       ELSE /\ workers' = [workers EXCEPT ![w] = Returned(w)]
            /\ UNCHANGED trace
    /\ UNCHANGED <<conversation_history, now>>
    /\ StoreFrame

\* The threads of the list in the order of the dict, which is the order of
\* their ids here
FirstOf(thread_ids) == CHOOSE t \in thread_ids : \A u \in thread_ids : t[2] <= u[2]

\* Lines 134-135, one pass of the loop: del conversation_history[thread_id]
\* raises KeyError when the thread is gone
DeleteThread(w) ==
    /\ workers[w].pc = "delete"
    /\ IF workers[w].threads_to_remove = {}
       THEN /\ workers' = [workers EXCEPT ![w] = Returned(w)]
            /\ UNCHANGED conversation_history
       ELSE LET t == FirstOf(workers[w].threads_to_remove)
            IN  IF Has(conversation_history, t)
                THEN /\ conversation_history' = Drop(conversation_history, {t})
                     /\ workers' = [workers EXCEPT ![w].threads_to_remove = @ \ {t}]
                ELSE /\ workers' = [workers EXCEPT ![w].pc = "failed"]
                     /\ UNCHANGED conversation_history
    /\ UNCHANGED <<now, trace>>
    /\ StoreFrame

\* Lines 540-593: the answer is worked out
ComposeReply(w) ==
    /\ workers[w].pc = "answer"
    /\ workers' = [workers EXCEPT ![w].pc = "append", ![w].phase = "assistant"]
    /\ UNCHANGED <<conversation_history, now, trace>>
    /\ StoreFrame

\* datetime.now() moves on
Tick ==
    /\ now + TickHours <= MaxClock
    /\ now' = now + TickHours
    /\ UNCHANGED <<conversation_history, workers, trace, process>>
    /\ StoreFrame

StoreNext ==
    \/ \E w \in Workers : Arrive(w)
    \/ \E w \in Workers : AppendEntry(w)
    \/ \E w \in Workers : TestLength(w)
    \/ \E w \in Workers : AssignSlice(w)
    \/ \E w \in Workers : TestModulo(w)
    \/ \E w \in Workers : DeleteThread(w)
    \/ \E w \in Workers : ComposeReply(w)
    \/ Tick

SpecStore == StoreInit /\ [][StoreNext]_vars

-----------------------------------------------------------------------------
(* add_to_conversation_history of main.py, one call after the other *)

MaxAdds == 3   \* calls of add_to_conversation_history that are observed

HistoryInit == StoreInit

\* One call: add_to_conversation_history(thread_id, role, content) at this hour,
\* for the oldest thread or for a thread not seen before
AddMessage ==
    /\ Len(trace.appended) < MaxAdds
    /\ \E ts \in {1, next_ts}, role \in {"user", "assistant"} :
          \E entry \in {Entry(role, Len(trace.appended) + 1, now)} :
             /\ conversation_history' =
                    add_to_conversation_history(conversation_history, <<"thread", ts>>,
                                                role, entry.content, now)
             /\ next_ts' = IF ts = next_ts THEN next_ts + 1 ELSE next_ts
             /\ trace' = [trace EXCEPT
                            !.inserted = @ + 1,
                            !.swept = IF Cardinality(DOMAIN conversation_history
                                                         \cup {<<"thread", ts>>}) % 10 = 0
                                      THEN @ + 1 ELSE @,
                            !.appended = Append(@, [session |-> <<"thread", ts>>,
                                                    entry |-> entry])]
    /\ UNCHANGED <<program, review_data_store, THREAD_CONTEXT, thread_context_store,
                   ordered_context_store, now, turn, workers, process>>

HistoryNext ==
    \/ AddMessage
    \/ Tick

SpecHistory == HistoryInit /\ [][HistoryNext]_vars

-----------------------------------------------------------------------------
(* The bot's own posts coming back: Slack sends a message event for every    *)
(* message of a channel the app listens to, the ones the app posted included *)

EchoPrograms == {"month", "plan", "influencer"}

\* The text of a message the bot posted.  plan.py's follow-up handler answers
\* with f"<@{user_id}> {ai_response}" and apologises with f"<@{user_id}> I
\* encountered an error ..."; the other call sites post the text as it is.
PostedText(handler, m) ==
    IF handler = "plan_thread" /\ m.tpl = "answer" THEN "<@U1> answer"
    ELSE IF handler = "plan_thread"
            /\ m.tpl = "I encountered an error processing your question"
    THEN "<@U1> I encountered an error processing your question"
    ELSE m.tpl

\* An App that hands every event to its listeners, its own posts included
IgnoringSelfEvents_disabled(event) == FALSE

\* app = App(token=SLACK_BOT_TOKEN): the App is built with slack_bolt's
\* default ignoring_self_events_enabled=True, under which an event whose
\* bot_id or user is the app's own is acknowledged and reaches no listener
IgnoringSelfEvents(event) == event.bot_id /\ event.own

\* The @app.event("message") listener of each program
MessageHandlerOf(p) ==
    CASE p = "month" -> "month_thread"
      [] p = "plan" -> "plan_thread"
      [] OTHER -> "influencer_thread"

ProgramStore(p) ==
    CASE p = "month" -> review_data_store
      [] p = "plan" -> THREAD_CONTEXT
      [] OTHER -> thread_context_store

MessageListener(p, event, env) ==
    CASE p = "month" -> MonthThreadMessages(review_data_store, next_ts, event, env)
      [] p = "plan" -> handle_thread_replies(THREAD_CONTEXT, next_ts, event, env)
      [] OTHER -> InfluencerThreadMessages(thread_context_store, next_ts, event, env)

EchoInit == Init /\ program \in EchoPrograms

\* The message event of a post the last run made into a thread arrives at the
\* App, which drops it or hands it to the program's message listener
Echo ==
    /\ program \in EchoPrograms
    /\ turn # NoTurn
    /\ \E i \in 1..Len(turn.msgs) :
       /\ turn.msgs[i].thread # 0
       /\ LET m == turn.msgs[i]
              text == PostedText(turn.handler, m)
              event == [thread_ts |-> m.thread, bot_id |-> TRUE, own |-> TRUE,
                        text |-> text]
              dropped == IgnoringSelfEvents(event)
              H == [e \in Environments |->
                       IF dropped THEN Ignored(ProgramStore(program), next_ts)
                       ELSE MessageListener(program, event, e)]
          IN  \E e \in FollowupEnvs(H, {LlmRaises, 1}) : \E r \in {H[e]} :
                 /\ review_data_store' =
                        IF program = "month" THEN r.store ELSE review_data_store
                 /\ THREAD_CONTEXT' = IF program = "plan" THEN r.store ELSE THREAD_CONTEXT
                 /\ thread_context_store' =
                        IF program = "influencer" THEN r.store ELSE thread_context_store
                 /\ turn' = Turn(IF dropped THEN "ignoring_self_events"
                                 ELSE MessageHandlerOf(program),
                                 m.thread, <<text, "self">>, e, r, r.writes)
    /\ UNCHANGED <<program, ordered_context_store, conversation_history, next_ts, now,
                   workers, trace, process>>

EchoNext ==
    \/ MonthlyReview(MaxThreads, CommandTexts, TargetBodies, ActualBodies)
    \/ MonthThreadMessage
    \/ Plan
    \/ PlanThreadReply
    \/ AnalyseInfluencer
    \/ InfluencerThreadMessage
    \/ Echo
    \/ Dispatch

SpecEcho == EchoInit /\ [][EchoNext]_vars

-----------------------------------------------------------------------------
(* Properties *)

\* The handlers of the tools, and the analytics endpoints they query
ToolHandlers == {"monthly_review", "plan", "analyse_influencer", "weekly_by_range",
                 "weekly_by_number", "influencer_trend"}
AnalyticsApis == {"Targets", "Actuals", "Discovery-Gold", "Discovery-Silver",
                  "Discovery-Bronze", "Influencer Analytics", "Date Range Breakdown",
                  "Week Number Breakdown", "Discovery Tiers"}
FailedApis == {turn.calls[i].api : i \in {j \in 1..Len(turn.calls) :
                                            /\ turn.calls[j].api \in AnalyticsApis
                                            /\ turn.calls[j].res = "error"}}
ErrorTemplates ==
    {"Format: /monthly-review Market-Month-Year", "Invalid format", "Invalid month",
     "Target API Error", "Actuals API Error",
     "Please use the format: /plan Market-Month-Year",
     "Invalid format. Please use /plan with a valid year", "I don't recognize the month",
     "Step 1/4 failed. API Error", "Step 2/4 failed. API Error",
     "Format: /analyse-influencer name - [year] - [month]",
     "Invalid format. The year must be a number.", "Could not connect to the API",
     "A required parameter was missing", "API Error", "An unexpected error occurred"}
ErrorShown == turn.msgs # <<>> /\ Last(turn.msgs).tpl \in ErrorTemplates

\* C1: a tool handler that meets a missing or invalid parameter, or a failed
\* analytics-API call, ends with an error message to the user and has written
\* no context.  Violated by /plan, whose discovery-tier fetches swallow the
\* failure (see C7).
C1_ErrorLeavesStore ==
    (turn.handler \in ToolHandlers /\ (turn.status = "rejected" \/ FailedApis # {}))
        => (ErrorShown /\ turn.wrote = 0)

\* C2: every tool invocation writes at most one context, a successful one
\* writes exactly one, and one that ends by telling the user it failed has
\* written none.  Violated where the context is stored before the answer
\* chunks are delivered.
C2_ContextOnlyOnSuccess ==
    turn.handler \in ToolHandlers
        => /\ turn.wrote <= 1
           /\ turn.status = "ok" => turn.wrote = 1
           /\ turn.status = "failed" => turn.wrote = 0

Sessions(store) == Cardinality(DOMAIN store)

\* C3: no store ever holds more than MAX_CONTEXTS (20) sessions.  Violated:
\* no store has a limit, the 21st thread is kept like the 20 before it.
C3_AtMostMaxContexts ==
    /\ Sessions(review_data_store) <= 20
    /\ Sessions(THREAD_CONTEXT) <= 20
    /\ Sessions(thread_context_store) <= 20
    /\ Sessions(conversation_history) <= 20

\* The handlers of thread replies, and the context a thread has in the store
\* of the running program
ThreadHandlers == {"month_thread", "plan_thread", "influencer_thread", "unified_thread"}
HasContext(thread) ==
    CASE program = "month" -> Has(review_data_store, thread)
      [] program = "plan" -> Has(THREAD_CONTEXT, thread)
      [] program = "influencer" -> Has(thread_context_store, thread)
      [] program = "unified" -> thread \in OKeys(ordered_context_store)
      [] OTHER -> FALSE
StoredContext(thread) ==
    CASE program = "month" -> review_data_store[thread]
      [] program = "plan" -> THREAD_CONTEXT[thread]
      [] program = "influencer" -> thread_context_store[thread]
      [] OTHER -> ordered_context_store[OGet(ordered_context_store, thread)].ctx
GroundedIn(prompt, ctx) ==
    /\ prompt.kind = "followup"
    /\ DOMAIN prompt.context # {}
    /\ \A f \in DOMAIN prompt.context : f \in DOMAIN ctx /\ prompt.context[f] = ctx[f]

\* C4: when a thread reply is answered, the LLM prompt is built from the
\* context stored under the thread the reply is in, and the handler issues no
\* analytics-API call.
C4_FollowupFromOwnContext ==
    [][(turn'.handler \in ThreadHandlers /\ turn'.status \in {"ok", "failed"})
          => /\ HasContext(turn'.thread)
             /\ GroundedIn(turn'.prompt, StoredContext(turn'.thread))
             /\ \A i \in 1..Len(turn'.calls) : turn'.calls[i].api \in {"LLM", "post:chunk"}]_vars

\* A reply was answered in one of two threads whose reviews differ
C4_Witness ==
    /\ turn.handler = "month_thread"
    /\ turn.status = "ok"
    /\ \E other \in DOMAIN review_data_store :
          /\ other # turn.thread
          /\ review_data_store[other].metrics # review_data_store[turn.thread].metrics

UserTurnHandlers == {"app_mention", "slash_command", "direct_message", "quick_query",
                     "monthly_review", "plan"}

\* C6: every user turn ends with at least one message the user can see.
\* Violated by the quick-query button: when posting the answer raises, the
\* handler only logs.
C6_TurnAnswered ==
    (turn.handler \in UserTurnHandlers /\ turn.status # "ignored") => turn.msgs # <<>>

\* C7: when an analytics sub-call of /monthly-review or /plan fails, the user
\* gets an error message naming that sub-call and no context is written.
\* Violated by the discovery-tier fetches of /plan.
C7_FailureNamed ==
    (turn.handler \in {"monthly_review", "plan"} /\ FailedApis # {})
        => /\ \A a \in FailedApis :
                 \E i \in 1..Len(turn.msgs) :
                    turn.msgs[i].tpl \in ErrorTemplates /\ turn.msgs[i].arg = a
           /\ turn.wrote = 0

\* The external calls of /monthly-review and /plan in the order of the code
External == {"Targets", "Actuals", "Discovery-Gold", "Discovery-Silver",
             "Discovery-Bronze", "LLM"}
Rank(api) ==
    CASE api = "Targets" -> 1
      [] api = "Actuals" -> 2
      [] api = "Discovery-Gold" -> 3
      [] api = "Discovery-Silver" -> 4
      [] api = "Discovery-Bronze" -> 5
      [] OTHER -> 6
ExternalCalls == SelectSeq(turn.calls, LAMBDA c : c.api \in External)
\* Each call at most once, and in the fixed order
OnceInOrder ==
    \A i, j \in 1..Len(ExternalCalls) :
       i < j => Rank(ExternalCalls[i].api) < Rank(ExternalCalls[j].api)
ValidationFirst == turn.status = "rejected" => turn.calls = <<>>
\* Whether the call of an endpoint got records back
ReturnedData(api) ==
    CASE api = "Actuals" -> turn.env.actuals.ok /\ turn.env.actuals.body.influencers # <<>>
      [] api = "Discovery-Gold" -> turn.env.gold.ok /\ turn.env.gold.body # <<>>
      [] api = "Discovery-Silver" -> turn.env.silver.ok /\ turn.env.silver.body # <<>>
      [] api = "Discovery-Bronze" -> turn.env.bronze.ok /\ turn.env.bronze.body # <<>>
      [] OTHER -> TRUE
SomeTierData ==
    \E net \in {turn.env.gold, turn.env.silver, turn.env.bronze} : net.ok /\ net.body # <<>>

Failing(field) == [turn.env EXCEPT ![field] = NetFail]
TierFailures ==
    {[turn.env EXCEPT !.gold = g, !.silver = s, !.bronze = b] :
        g \in {turn.env.gold, NetFail}, s \in {turn.env.silver, NetFail},
        b \in {turn.env.bronze, NetFail}} \ {turn.env}

\* C9: a tool call whose analytics request succeeds with zero records tells
\* the user so in a message that differs from what the user is told when the
\* request fails, and writes no context.  Violated by /plan: with every tier
\* empty the user reads the same words as with a tier fetch failing (see C7).
C9_NoDataDistinct ==
    turn.status = "no_data" =>
        /\ turn.wrote = 0
        /\ turn.handler = "monthly_review" =>
              handle_monthly_review_command(review_data_store, next_ts, turn.input,
                                            Failing("actuals")).msgs # turn.msgs
        /\ (turn.handler = "plan" /\ FailedApis = {}) =>
              \A e \in TierFailures :
                 handle_plan_command(THREAD_CONTEXT, next_ts, now, turn.input, e).msgs
                     # turn.msgs
        /\ turn.handler = "analyse_influencer" =>
              handle_analyse_influencer_command(thread_context_store, next_ts, turn.input,
                                                Failing("api")).msgs # turn.msgs
        /\ turn.handler = "weekly_by_range" =>
              run_weekly_review_by_range(ordered_context_store, turn.thread, turn.input[1],
                                         Failing("api")).msgs # turn.msgs
        /\ turn.handler = "weekly_by_number" =>
              run_weekly_review_by_number(ordered_context_store, turn.thread, turn.input[1],
                                          Failing("api")).msgs # turn.msgs
        /\ turn.handler = "influencer_trend" =>
              run_influencer_trend(ordered_context_store, turn.thread, turn.input[1],
                                   Failing("api")).msgs # turn.msgs

\* The replies of the model that are no JSON text, also once unwrapped
UnparseableReplies == { CUSTOM_ERROR_MESSAGE, <<"Sure!", JsonMulti>>, <<Fence>>,
                        <<"Here", "is", JsonQuery>>,
                        <<Fence, Blank, "json", JsonPlan, Fence>> }
ProcessHandlers == {"app_mention", "slash_command", "direct_message", "quick_query"}
Rephrase == {"I couldn't understand your question.",
             "I couldn't understand your complex question."}

\* C10: whenever a classifier wrapper gets a reply that is no JSON (or the LLM
\* call failed), the complexity decision is the 'single' fallback, the query
\* and plan wrappers return None and the user is asked to rephrase; the
\* failure never surfaces as an exception.  It holds for every turn.
C10_ClassifierFallback ==
    (turn.handler \in ProcessHandlers /\ Issued(turn, "LLM:complexity")) =>
        /\ turn.env.classify \in UnparseableReplies =>
              /\ analyze_question_complexity(turn.env.classify) = SingleFallback
              /\ Issued(turn, "LLM:query")
              /\ ~Issued(turn, "LLM:plan")
              /\ turn.prompt.path # "exception"
        /\ (Issued(turn, "LLM:query") /\ turn.env.route \in UnparseableReplies) =>
              /\ extract_entities_and_generate_query(turn.env.route) = None
              /\ turn.prompt.path = "rephrase"
              /\ turn.prompt.answer \in Rephrase
        /\ (Issued(turn, "LLM:plan") /\ turn.env.plan \in UnparseableReplies) =>
              /\ generate_multi_step_queries(turn.env.plan) = None
              /\ turn.prompt.path = "rephrase"
              /\ turn.prompt.answer \in Rephrase

\* The second question in a thread met unparseable replies as the first did
C10_Witness ==
    /\ turn.handler = "app_mention"
    /\ turn.env.classify = <<Fence>>
    /\ turn.env.route = <<"Here", "is", JsonQuery>>
    /\ Has(conversation_history, <<"thread", turn.thread>>)
    /\ Len(conversation_history[<<"thread", turn.thread>>]) = 4
    /\ \A i \in {2, 4} :
          conversation_history[<<"thread", turn.thread>>][i].content \in Rephrase

\* The keys a reply must carry to be used as a complexity decision, and as a
\* multi-step plan
MissingComplexity(reply) ==
    ParseReply(reply).ok /\ "complexity" \notin DOMAIN ParseReply(reply).value
MissingPlanKey(reply) ==
    /\ ParseReply(reply).ok
    /\ {"queries", "final_analysis_needed"} \ DOMAIN ParseReply(reply).value # {}

\* C11: a reply that is JSON but lacks a required key ('complexity' in the
\* decision, 'queries' or 'final_analysis_needed' in the plan) is mapped to the
\* fallback of an unparseable reply: the decision is 'single', the plan is
\* None, and no exception leaves the step that read it.  Violated: the
\* wrappers return the parsed value as it is and the KeyError is raised in
\* process_user_query, whose except answers with CUSTOM_ERROR_MESSAGE.
C11_MissingKeyFallback ==
    (turn.handler \in ProcessHandlers /\ Issued(turn, "LLM:complexity")) =>
        /\ MissingComplexity(turn.env.classify) =>
              /\ analyze_question_complexity(turn.env.classify) = SingleFallback
              /\ Issued(turn, "LLM:query")
              /\ turn.prompt.path # "exception"
        /\ (Issued(turn, "LLM:plan") /\ MissingPlanKey(turn.env.plan)) =>
              /\ generate_multi_step_queries(turn.env.plan) = None
              /\ turn.prompt.path = "rephrase"

\* C12: a failed analytics-API call (timeout, no connection, non-2xx status)
\* raises nothing into the handler: the wrapper returns a value tagged
\* 'error', and the handler that called it ends by telling the user of the
\* error.  Violated by /plan, whose discovery-tier fetches turn the tagged
\* value into an empty list that no message reports (see C7).
C12_FailureBecomesMessage ==
    /\ HasError(query_api("Targets", NetFail))
    /\ HasError(query_influencer_api(NetFail))
    /\ (turn.handler \in ToolHandlers /\ FailedApis # {}) => ErrorShown
    /\ (turn.handler \in ProcessHandlers /\ Issued(turn, "API") /\ ~turn.env.api.ok)
          => turn.prompt.answer = "API Error"

\* C13: two questions of one session handled by two listener threads leave
\* their entries in arrival order: in every thread of the store an entry of an
\* earlier question never comes after an entry of a later one.  Violated:
\* nothing orders the threads, so the answer to the first question is appended
\* after the second question.
C13_ArrivalOrder ==
    \A t \in DOMAIN conversation_history :
       \A i, j \in 1..Len(conversation_history[t]) :
          i < j => conversation_history[t][i].content <= conversation_history[t][j].content

\* The appends of this run into the session of append number i that came after it
LaterAppends(i) ==
    {j \in (i + 1)..Len(trace.appended) :
        trace.appended[j].session = trace.appended[i].session}
InStore(x) ==
    /\ Has(conversation_history, x.session)
    /\ \E n \in 1..Len(conversation_history[x.session]) :
          conversation_history[x.session][n] = x.entry

\* C14: whatever the interleaving of add_to_conversation_history and
\* cleanup_old_conversations in two listener threads, no thread fails and no
\* fresh entry is lost: an entry appended less than 24 hours ago and not yet
\* pushed out by 20 newer ones is in the store.  Violated: the delete loop of
\* the sweep removes a thread that got a new entry after the list was
\* collected, the assignment of the truncated list drops an entry appended
\* after the list was read, and two sweeps deleting the same thread raise
\* KeyError.
C14_StoreSafe ==
    /\ \A w \in Workers : workers[w].pc # "failed"
    /\ \A i \in 1..Len(trace.appended) :
          (/\ now - trace.appended[i].entry.timestamp <= HISTORY_CLEANUP_HOURS
           /\ Cardinality(LaterAppends(i)) < MAX_HISTORY_PER_THREAD)
              => InStore(trace.appended[i])

\* The threads whose last entry is more than 24 hours old
Expired(history, clock) ==
    {t \in DOMAIN history :
        /\ history[t] # <<>>
        /\ clock - Last(history[t]).timestamp > HISTORY_CLEANUP_HOURS}

\* C16: cleanup_old_conversations removes exactly the threads whose last entry
\* is older than 24 hours, leaves every other thread as it is, and a second
\* run at the same hour changes nothing.
C16_SweepExactIdempotent ==
    /\ DOMAIN cleanup_old_conversations(conversation_history, now)
          = DOMAIN conversation_history \ Expired(conversation_history, now)
    /\ \A t \in DOMAIN conversation_history \ Expired(conversation_history, now) :
          cleanup_old_conversations(conversation_history, now)[t] = conversation_history[t]
    /\ cleanup_old_conversations(cleanup_old_conversations(conversation_history, now), now)
          = cleanup_old_conversations(conversation_history, now)

\* A sweep has removed the threads of the day before and kept thread 1, which
\* holds old entries and one of this hour, and the thread opened since
C16_Witness ==
    /\ \A w \in Workers : workers[w].pc = "idle"
    /\ trace.swept > 0
    /\ now > HISTORY_CLEANUP_HOURS
    /\ ~Has(conversation_history, <<"thread", 2>>)
    /\ Has(conversation_history, <<"thread", 1>>)
    /\ conversation_history[<<"thread", 1>>][1].timestamp = 0
    /\ Last(conversation_history[<<"thread", 1>>]).timestamp = now
    /\ Has(conversation_history, <<"thread", next_ts>>)

\* C17: the sweep runs on every tenth call of add_to_conversation_history:
\* after n calls it has run at most ceil(n/10) times.  Violated: line 145
\* tests the number of threads in the store, so while the store holds ten
\* threads every call sweeps.
C17_SweepEveryTenth == trace.swept * 10 <= trace.inserted + 9

\* C15: after a weekly review or a trend analysis has written the context of
\* a thread, new or overwritten, that thread is the last (most recently used)
\* entry of the ordered store.  Violated by the weekly writers: they assign
\* store[thread_ts] and never call move_to_end, so an overwritten thread keeps
\* its old position.
C15_WriteMovesToEnd ==
    (turn.handler \in {"weekly_by_range", "weekly_by_number", "influencer_trend"}
        /\ turn.wrote = 1)
        => ordered_context_store[Len(ordered_context_store)].ts = turn.thread

\* The stores of the program that is running, as one map from thread to context
Contexts ==
    CASE program = "month" -> review_data_store
      [] program = "plan" -> THREAD_CONTEXT
      [] program = "influencer" -> thread_context_store
      [] OTHER -> [k \in OKeys(ordered_context_store) |->
                      ordered_context_store[OGet(ordered_context_store, k)].ctx]

\* C18: every stored context carries a kind tag set when it is created (and a
\* follow-up handler answers only contexts of its own kinds).  Violated: the
\* contexts of /monthly-review and /plan have no 'type' entry at all.
C18_EveryContextTagged ==
    \A k \in DOMAIN Contexts : "type" \in DOMAIN Contexts[k]

\* C19: a /plan that succeeds while a monthly-review session is active takes
\* over the slot of that session: afterwards the entry under that session id
\* is the plan, tagged 'strategic_plan', and the monthly review is no longer
\* stored under it.  Violated: /plan opens a thread of its own and writes an
\* untagged context into the store of plan.py; the monthly review stays where
\* it was.
C19_PivotReplaces ==
    [][(turn'.handler = "plan" /\ turn'.wrote = 1 /\ review_data_store # EmptyDict)
          => \E s \in DOMAIN review_data_store :
                /\ ~Has(review_data_store', s)
                /\ Has(THREAD_CONTEXT', s)
                /\ "type" \in DOMAIN THREAD_CONTEXT'[s]
                /\ THREAD_CONTEXT'[s].type = "strategic_plan"]_vars

\* The lines of a text that open or close a code block
Fences(s) == Len(SelectSeq(s, IsFence))

\* C20: when the fence lines of a message are paired, every chunk
\* split_message_for_slack returns holds an even number of fence lines.
\* Violated: the loop forgets the open code block when it closes the full
\* chunk, so the next chunk starts without an opening fence and ends up with
\* the closing fence alone.
C20_FencesBalanced ==
    (/\ turn.handler = "split_message_for_slack"
     /\ turn.input.file # "weekly"
     /\ Fences(turn.input.message) % 2 = 0)
        => \A i \in 1..Len(turn.msgs) : Fences(turn.msgs[i]) % 2 = 0

\* C21: every chunk split_message_for_slack returns for a message longer than
\* max_length is at most max_length characters long, the fence lines the
\* function added included.
\* Violated: the closing fence is appended to a chunk that is already full.
C21_ChunksUnderMaxLength ==
    (/\ turn.handler = "split_message_for_slack"
     /\ StrLen(Joined(turn.input.message)) > turn.input.max_length)
        => \A i \in 1..Len(turn.msgs) : StrLen(turn.msgs[i]) <= turn.input.max_length

\* The chunks one after the other
RECURSIVE Flat(_)
Flat(chunks) == IF chunks = <<>> THEN <<>> ELSE Head(chunks) \o Flat(Tail(chunks))

\* The lines of a text that are not blank
IsNonBlank(line) == line \notin {NL, ""}
NonBlank(s) == SelectSeq(s, IsNonBlank)

\* `out` is `inp` with nothing but fence lines added
RECURSIVE OnlyFencesAdded(_, _)
OnlyFencesAdded(inp, out) ==
    IF out = <<>> THEN inp = <<>>
    ELSE IF inp # <<>> /\ Head(inp) = Head(out) THEN OnlyFencesAdded(Tail(inp), Tail(out))
    ELSE Head(out) = Fence /\ OnlyFencesAdded(inp, Tail(out))

\* Every non-blank line of the message is in the chunks once and in its place
KeepsLines ==
    OnlyFencesAdded(NonBlank(turn.input.message), NonBlank(Flat(turn.msgs)))

Missing(p, environ) ==
    IF p = "main" THEN missing_vars(environ) # <<>>
    ELSE EnvVars(p) \ environ # {}

\* The variables a reported name stands for
Names(reported) ==
    IF reported = "GEMINI_API_KEY or GOOGLE_API_KEY" THEN {"GEMINI_API_KEY", "GOOGLE_API_KEY"}
    ELSE {reported}

C23_OneEntryPerStep ==
    turn.handler = "execute_multi_step_queries"
        => /\ turn.status = "returned"
           /\ turn.calls = [i \in 1..Len(turn.input.queries) |-> i]
           /\ Cardinality(DOMAIN turn.prompt.results) = Len(turn.input.queries)
           /\ \A k \in DOMAIN turn.prompt.results :
                 ("data" \in DOMAIN turn.prompt.results[k])
                     # ("error" \in DOMAIN turn.prompt.results[k])

\* The sum of allocated_budget over recommendations
RECURSIVE Total(_)
Total(recs) == IF recs = <<>> THEN 0 ELSE Head(recs).allocated_budget + Total(Tail(recs))

TierRank(tier) == CASE tier = "Gold" -> 1 [] tier = "Silver" -> 2 [] OTHER -> 3
TierNames == {"Gold", "Silver", "Bronze"}

\* The recommendations of the tiers above `tier`
Above(recs, tier) ==
    SelectSeq(recs, LAMBDA rec : TierRank(rec.tier) < TierRank(tier))

Recommended(recs) == {recs[i].influencer_name : i \in 1..Len(recs)}

\* C24: the recommendations run Gold, Silver, Bronze and cheapest first within
\* a tier, and when an influencer of a tier is recommended, every influencer
\* of a higher tier that is not recommended costs more than the budget that
\* was left when the allocation of that tier began.
C24_CascadeCheapestFirst ==
    turn.handler = "allocate_budget_cascading_tiers"
        => LET recs == turn.prompt.recs
           IN  /\ \A i, j \in 1..Len(recs) :
                     i < j => \/ TierRank(recs[i].tier) < TierRank(recs[j].tier)
                              \/ /\ recs[i].tier = recs[j].tier
                                 /\ recs[i].allocated_budget <= recs[j].allocated_budget
               /\ \A i \in 1..Len(recs) : \A higher \in TierNames :
                     TierRank(higher) < TierRank(recs[i].tier)
                         => \A k \in 1..Len(turn.input[higher]) :
                               turn.input[higher][k].influencerName \notin Recommended(recs)
                                   => turn.input[higher][k].averageSpendPerCampaign
                                          > turn.input.remaining_budget
                                              - Total(Above(recs, recs[i].tier))

\* A Silver influencer is recommended and a Gold one is not
C24_Witness ==
    /\ turn.handler = "allocate_budget_cascading_tiers"
    /\ \E i \in 1..Len(turn.prompt.recs) : turn.prompt.recs[i].tier = "Silver"
    /\ \E k \in 1..Len(turn.input.Gold) :
          turn.input.Gold[k].influencerName \notin Recommended(turn.prompt.recs)
    /\ Len(turn.input.Gold) = 2
    /\ turn.input.Gold[1].averageSpendPerCampaign > turn.input.Gold[2].averageSpendPerCampaign

\* C25: the total allocate_budget_cascading_tiers returns is the sum of
\* allocated_budget over its recommendations and is at most remaining_budget,
\* and every influencer was added while the total was below 98% of
\* remaining_budget.
C25_NeverOverAllocates ==
    turn.handler = "allocate_budget_cascading_tiers"
        => /\ turn.prompt.allocated = Total(turn.prompt.recs)
           /\ turn.prompt.allocated <= turn.input.remaining_budget
           /\ \A n \in 0..(Len(turn.prompt.recs) - 1) :
                 100 * Total(SubSeq(turn.prompt.recs, 1, n)) < 98 * turn.input.remaining_budget

\* The total reached 98% of the budget with an influencer left out whose spend
\* was still within the budget
C25_Witness ==
    /\ turn.handler = "allocate_budget_cascading_tiers"
    /\ turn.input.remaining_budget > 0
    /\ 100 * turn.prompt.allocated >= 98 * turn.input.remaining_budget
    /\ \E tier \in TierNames : \E k \in 1..Len(turn.input[tier]) :
          /\ turn.input[tier][k].influencerName \notin Recommended(turn.prompt.recs)
          /\ turn.prompt.allocated + turn.input[tier][k].averageSpendPerCampaign
                 <= turn.input.remaining_budget

\* The appends of this run that question q caused, by role
AppendsOf(q, role) ==
    {i \in 1..Len(trace.appended) :
        trace.appended[i].entry.content = q /\ trace.appended[i].entry.role = role}

\* The call of process_user_query for question q is over: it returned, or an
\* exception left it
CallOver(q) ==
    /\ q <= trace.arrived
    /\ \A w \in Workers : workers[w].question = q => workers[w].pc = "failed"

\* C26: a call of process_user_query that is over has appended one 'user'
\* entry and after it one 'assistant' entry to the history of its session, and
\* both are in the store while they are fresh and not pushed out by newer
\* ones.  Violated with two listener threads (see C14): a sweep that raises
\* KeyError ends the call before the assistant entry, and an entry is lost to
\* the other thread's truncation or sweep.
C26_UserThenAssistant ==
    \A q \in 1..MaxArrivals :
       CallOver(q)
           => /\ Cardinality(AppendsOf(q, "user")) = 1
              /\ Cardinality(AppendsOf(q, "assistant")) = 1
              /\ \A i \in AppendsOf(q, "user") : \A j \in AppendsOf(q, "assistant") :
                    /\ i < j
                    /\ trace.appended[i].session = trace.appended[j].session
              /\ \A i \in AppendsOf(q, "user") \cup AppendsOf(q, "assistant") :
                    (/\ now - trace.appended[i].entry.timestamp <= HISTORY_CLEANUP_HOURS
                     /\ Cardinality(LaterAppends(i)) < MAX_HISTORY_PER_THREAD)
                        => InStore(trace.appended[i])

\* What a thread held before a call
Before(t) == IF Has(conversation_history, t) THEN conversation_history[t] ELSE <<>>

\* C27: after every call of add_to_conversation_history the thread written to
\* is in the store (the sweep of the same call has not removed it) with the
\* last 20 of its entries, the new one included, in arrival order, and no
\* thread holds more than 20 entries.
C27_RecentEntriesKept ==
    [][Len(trace'.appended) = Len(trace.appended) + 1
          => /\ Has(conversation_history', Last(trace'.appended).session)
             /\ conversation_history'[Last(trace'.appended).session]
                    = LastN(Append(Before(Last(trace'.appended).session),
                                   Last(trace'.appended).entry),
                            MAX_HISTORY_PER_THREAD)
             /\ \A t \in DOMAIN conversation_history' :
                    Len(conversation_history'[t]) <= MAX_HISTORY_PER_THREAD]_vars

\* Thread 1 was full, got an entry a day later and lost its oldest one, and
\* the sweep of that call removed the threads of the day before
C27_Witness ==
    /\ trace.appended # <<>>
    /\ Last(trace.appended).session = <<"thread", 1>>
    /\ Has(conversation_history, <<"thread", 1>>)
    /\ Len(conversation_history[<<"thread", 1>>]) = MAX_HISTORY_PER_THREAD
    /\ conversation_history[<<"thread", 1>>][1].role = "assistant"
    /\ conversation_history[<<"thread", 1>>][1].timestamp = 0
    /\ Last(conversation_history[<<"thread", 1>>]).timestamp = now
    /\ now > HISTORY_CLEANUP_HOURS
    /\ ~Has(conversation_history, <<"thread", 3>>)

\* C28: the bot never answers its own messages: the message event of a post
\* the bot made into a thread (a progress note, an answer chunk, a
\* "<@user> ..." follow-up answer) starts no follow-up handler, calls no
\* service and posts nothing, so that no further post of the bot follows it
\* and the run of bot messages a user message starts ends there
SelfEvent == turn.handler \in {"month_thread", "plan_thread", "influencer_thread",
                               "ignoring_self_events"}
             /\ Len(turn.input) = 2 /\ turn.input[2] = "self"

TrendGiven ==
    /\ turn.env.api.ok
    /\ turn.env.api.body.items # <<>>
    /\ \A i \in 1..Len(turn.calls) : turn.calls[i].res = "ok"

TrendStored ==
    /\ Cardinality({i \in 1..Len(ordered_context_store) :
                       ordered_context_store[i].ts = turn.thread}) = 1
    /\ ordered_context_store[OGet(ordered_context_store, turn.thread)].ctx.type
          = "influencer_trend"

C29_TrendDeliversAndStores ==
    turn.handler = "influencer_trend" =>
        /\ TrendGiven =>
              /\ \E i \in 1..Len(turn.msgs) : turn.msgs[i].tpl = "answer"
              /\ turn.wrote = 1
              /\ TrendStored
        /\ turn.status # "ok" => turn.wrote = 0

====
